---------------------------- MODULE Spec2Model ----------------------------
(***************************************************************************)
(* State-machine model of the Evalya interview application:                *)
(*   src/App.tsx                        (App: steps, handleInterviewComplete)*)
(*   src/components/InterviewSession.tsx (the live session orchestrator)    *)
(*                                                                         *)
(* Every handler of the single-threaded event loop is one action.  Time is *)
(* the value of Date.now() in milliseconds; it advances in whole seconds   *)
(* (action Second), which also makes the two setInterval callbacks due.    *)
(* Strings that the code inspects (transcript text) are sequences of       *)
(* characters; strings it only passes along (reasons) are TLA+ strings.    *)
(* The variable "emitted" holds, in order, the outward calls made by the   *)
(* most recent handler (sends, handleTermination invocations, onComplete). *)
(***************************************************************************)
EXTENDS Integers, Sequences, FiniteSets, TLC

VARIABLES
    \* ---- App (src/App.tsx)
    step,                   \* AppStep
    result,                 \* InterviewResult or NoResult
    scoringRequests,        \* number of generateContent requests issued
    evalTimer,              \* due time of the disqualification setTimeout, -1 if none
    evalReason,             \* reason captured by that timeout's closure
    \* ---- InterviewSession: React state
    status,                 \* 'connecting' | 'connected' | 'error'
    timeLeft,
    warningCount,
    transcriptLines,        \* sequence of [speaker, text]
    systemMessageStatus,    \* "null" | "Reminder" | "Skip"
    isUserSpeaking,
    isMuted,
    \* ---- InterviewSession: refs
    isMounted,              \* isMountedRef
    isConnected,            \* isConnectedRef
    sessionRef,             \* TRUE iff sessionRef.current is a handle
    terminationTriggered,   \* terminationTriggeredRef
    fullTranscriptHistory,  \* sequence of strings
    isAiSpeaking, isWaitingForResponse, isProcessingTimeout,
    lastAiTurnEndTime, silenceWarningCount,
    noiseFloor,             \* noiseFloorRef, in millionths
    sources,                \* sourcesRef: set of source ids
    nextAudioStartTime,     \* nextAudioStartTimeRef (ms)
    processorAttached,      \* scriptProcessor.onaudioprocess is set
    \* ---- timers and continuations of the session
    setupPc,                \* position of initSession
    timerActive,            \* the countdown setInterval exists
    countdownDue,           \* its callback is due
    silenceActive,          \* the silence setInterval exists
    silenceDue,             \* its callback is due
    termTimers,             \* pending handleTermination timeouts: seq of [reason, due]
    \* ---- environment
    now,                    \* ms since the App was constructed (also the audio clock)
    apiKey,                 \* process.env.API_KEY is set
    channel,                \* the websocket: none | connecting | open | closing | closed
    stream,                 \* the MediaStream: none | live | stopped
    tracksEnabled,          \* the enabled attribute of its audio tracks
    outputCtx, inputCtx,    \* the AudioContexts: none | running | closed
    schedule,               \* what the output context was told to play: seq of [start, end]
    decoding,               \* buffers being decoded for a handler that awaits them: seq of ms
    completed,              \* the calls of onComplete so far: seq of [transcript, reason]
    emitted                 \* outward calls of the most recent handler, in order

appVars     == <<step, result, scoringRequests, evalTimer, evalReason>>
statusVars  == <<status, timerActive, countdownDue>>
timeVars    == <<timeLeft>>
proctorVars == <<warningCount>>
scriptVars  == <<transcriptLines, fullTranscriptHistory>>
silenceVars == <<isAiSpeaking, isWaitingForResponse, isProcessingTimeout,
                 lastAiTurnEndTime, silenceWarningCount, systemMessageStatus>>
vadVars     == <<noiseFloor, isUserSpeaking, isMuted, tracksEnabled>>
playVars    == <<sources, nextAudioStartTime, schedule, decoding>>
resVars     == <<sessionRef, channel, stream, outputCtx, inputCtx, processorAttached>>
termVars    == <<terminationTriggered, termTimers, completed>>
setupVars   == <<isMounted, setupPc, apiKey, silenceActive, silenceDue>>

vars == <<appVars, statusVars, timeVars, proctorVars, scriptVars, silenceVars, vadVars,
          playVars, resVars, termVars, setupVars, isConnected, now, emitted>>

----------------------------------------------------------------------------
(* Bounds of the model (not program constants).                            *)

\* last second the short-horizon specifications let the clock reach
MaxClock == 36
\* last second the termination specification lets the clock reach
MaxClockTermination == 8
\* last second the playback specification lets the clock reach
MaxClockPlayback == 4
\* last second the hand-off specification lets the clock reach
MaxClockHandoff == 4
\* last second the capture specification lets the clock reach
MaxClockCapture == 5
\* last second the grace-delay specification lets the clock reach
MaxClockGrace == 12
\* last second at which the environment of the result specification acts
MaxClockTrigger == 2
\* last second the transcript specification lets the clock reach
MaxClockTranscript == 2
\* bits of the significand of the model's floating-point numbers
FloatBits == 8
\* noise floor, in millionths, up to which the environment delivers frames to
\* the noise specification
MaxNoiseFloor == 2100
\* noise floor, in millionths, up to which the environment delivers frames to
\* the voice-detection specification
MaxVadFloor == 11000
\* last second the countdown specification lets the clock reach
MaxClockLong == 603
\* seconds the environment may take to set the session up
MaxSetupDelay == 1
\* the same, for a handshake that outlasts a termination
MaxSetupDelaySlow == 3
\* the same, in the countdown specification
MaxSetupDelayLong == 0
\* Date.now() when the App is constructed, in seconds
EpochSeconds == 100
\* proctoring violations the environment produces
MaxViolations == 4
\* characters on display up to which the environment delivers text
MaxTranscript == 5
\* audio buffers the environment delivers
MaxBuffers == 3

(* Program constants.                                                      *)
InitialTime        == 600      \* useState(600)
TickMs             == 1000     \* both setInterval periods
GraceMs            == 2000     \* handleTermination's setTimeout
EvalDelayMs        == 1500     \* handleInterviewComplete's setTimeout
SilenceThresholdMs == 10000    \* timeSinceAiFinished > 10000
StrikeLimit        == 3        \* newCount >= 3
SilenceStrikes     == 2        \* silenceWarningCountRef.current > 2
PassMark           == 6        \* rating > 6
InitialNoiseFloor  == 2000     \* 0.002, in millionths
MinThreshold       == 30000    \* 0.03, in millionths
ThresholdFactor    == 6        \* noiseFloor * 6

----------------------------------------------------------------------------
(* Values.                                                                 *)

\* an absent (undefined) string
Absent == "<absent>"
\* JavaScript truthiness of an optional string
Truthy(s) == s # Absent /\ s # ""
\* a || b on optional strings
OrElse(a, b) == IF Truthy(a) THEN a ELSE b

NoResult == [rating |-> -1, passed |-> FALSE, terminationReason |-> Absent,
             feedback |-> "null"]

TimeLimitReason == "Time Limit Exceeded"
SecurityReason  == "Security Violation: Multiple breaches detected."
CompletedReason == "Completed"

\* Date.now()
DateNow == EpochSeconds * TickMs + now

Min(a, b) == IF a < b THEN a ELSE b
Max(a, b) == IF a > b THEN a ELSE b

\* one outward call of a handler
Effect(op, reason, text, outcome, calls, at) ==
    [op |-> op, reason |-> reason, text |-> text, outcome |-> outcome,
     calls |-> calls, at |-> at]
EffTerminate(reason)    == Effect("handleTermination", reason, <<>>, "", <<>>, 0)
EffSend(text, outcome)  == Effect("sendRealtimeInput", "", text, outcome, <<>>, 0)
EffAck(calls)           == Effect("sendToolResponse", "", <<>>, "sent", calls, 0)
EffStart(at)            == Effect("source.start", "", <<>>, "", <<>>, at)
EffDisconnect           == Effect("disconnect", "", <<>>, "", <<>>, 0)
EffViolation(msg)       == Effect("triggerViolation", "", <<msg>>, "", <<>>, 0)
EffClose                == Effect("session.close", "", <<>>, "", <<>>, 0)
EffStopTracks           == Effect("track.stop", "", <<>>, "", <<>>, 0)
EffComplete(transcript, reason) == Effect("onComplete", reason, transcript, "", <<>>, 0)

RECURSIVE TrimLeft(_)
TrimLeft(s) ==
    IF s = <<>> THEN s
    ELSE IF Head(s) = " " THEN TrimLeft(Tail(s)) ELSE s

RECURSIVE TrimRight(_)
TrimRight(s) ==
    IF s = <<>> THEN s
    ELSE IF s[Len(s)] = " " THEN TrimRight(SubSeq(s, 1, Len(s) - 1)) ELSE s

\* String.prototype.trim
Trim_LeftOnly(s) == TrimLeft(s)

Trim(s) == TrimRight(TrimLeft(s))

\* String.prototype.startsWith
StartsWith(s, p) == Len(s) >= Len(p) /\ SubSeq(s, 1, Len(p)) = p

\* Array.prototype.join('\n')
RECURSIVE Join(_)
Join(h) ==
    IF h = <<>> THEN <<>>
    ELSE IF Len(h) = 1 THEN h[1]
    ELSE h[1] \o <<"\n">> \o Join(Tail(h))

AiPrefix   == <<"A", "I", ":">>
UserPrefix == <<"U", "s", "e", "r", ":">>
SilentEntry == <<"[No Answer - Time Limit Exceeded]">>

----------------------------------------------------------------------------
(* Init: the App after construction; no InterviewSession mounted yet, its  *)
(* state and refs at their useState/useRef initial values.                 *)

Init ==
    /\ step = "FORM" /\ result = NoResult /\ scoringRequests = 0
    /\ evalTimer = -1 /\ evalReason = Absent
    /\ status = "connecting" /\ timeLeft = InitialTime /\ warningCount = 0
    /\ transcriptLines = <<>> /\ systemMessageStatus = "null"
    /\ isUserSpeaking = FALSE /\ isMuted = FALSE /\ tracksEnabled = TRUE
    /\ isMounted = FALSE /\ isConnected = FALSE /\ sessionRef = FALSE
    /\ terminationTriggered = FALSE /\ fullTranscriptHistory = <<>>
    /\ isAiSpeaking = FALSE /\ isWaitingForResponse = FALSE
    /\ isProcessingTimeout = FALSE /\ lastAiTurnEndTime = 0
    /\ silenceWarningCount = 0 /\ noiseFloor = InitialNoiseFloor
    /\ sources = {} /\ nextAudioStartTime = 0 /\ processorAttached = FALSE
    /\ setupPc = "unmounted" /\ timerActive = FALSE /\ countdownDue = FALSE
    /\ silenceActive = FALSE /\ silenceDue = FALSE /\ termTimers = <<>>
    /\ now = 0 /\ apiKey \in BOOLEAN /\ channel = "none" /\ stream = "none"
    /\ outputCtx = "none" /\ inputCtx = "none" /\ schedule = <<>>
    /\ decoding = <<>>
    /\ completed = <<>> /\ emitted = <<>>

----------------------------------------------------------------------------
(* Helpers shared by the handlers.                                         *)

setStatus_TimerSurvives(s) ==
    IF isMounted /\ s # status
    THEN /\ status' = s
         /\ timerActive' = (timerActive \/ s = "connected")
         /\ countdownDue' = FALSE
    ELSE UNCHANGED <<status, timerActive, countdownDue>>

\* setStatus, with the TIMER LOGIC effect that depends on [status]: the
\* countdown interval exists exactly while the rendered status is connected
\* (and is cleared for good by the tick that reaches zero).
setStatus(s) ==
    IF isMounted /\ s # status
    THEN /\ status' = s
         /\ timerActive' = (s = "connected")
         /\ countdownDue' = FALSE
    ELSE UNCHANGED <<status, timerActive, countdownDue>>

\* AudioBufferSourceNode.stop() on the sources in ids, at time t: a source
\* that has not started never plays, a playing one is cut
StopSources(sch, ids, t) ==
    [i \in DOMAIN sch |->
        IF i \in ids
        THEN [start |-> Min(sch[i].start, t),
              end   |-> Max(Min(sch[i].start, t), Min(sch[i].end, t))]
        ELSE sch[i]]

\* the calls by which a run of disconnect releases what it holds: lines 88-100
Releases ==
    (IF sessionRef THEN <<EffClose>> ELSE <<>>)
    \o (IF stream = "live" THEN <<EffStopTracks>> ELSE <<>>)

disconnect_KeepsHandle ==
    /\ isConnected' = FALSE
    /\ processorAttached' = FALSE
    /\ sessionRef' = sessionRef
    /\ channel' = IF sessionRef /\ channel = "open" THEN "closing" ELSE channel
    /\ stream' = IF stream = "live" THEN "stopped" ELSE stream
    /\ outputCtx' = IF outputCtx = "running" THEN "closed" ELSE outputCtx
    /\ inputCtx' = IF inputCtx = "running" THEN "closed" ELSE inputCtx
    /\ schedule' = StopSources(schedule, sources, now)
    /\ sources' = {}
    /\ nextAudioStartTime' = 0
    /\ decoding' = decoding

\* disconnect: lines 77-118
disconnect ==
    /\ isConnected' = FALSE
    /\ processorAttached' = FALSE
    /\ sessionRef' = FALSE
    /\ channel' = IF sessionRef /\ channel = "open" THEN "closing" ELSE channel
    /\ stream' = IF stream = "live" THEN "stopped" ELSE stream
    /\ outputCtx' = IF outputCtx = "running" THEN "closed" ELSE outputCtx
    /\ inputCtx' = IF inputCtx = "running" THEN "closed" ELSE inputCtx
    /\ schedule' = StopSources(schedule, sources, now)
    /\ sources' = {}
    /\ nextAudioStartTime' = 0
    /\ decoding' = decoding

handleTermination_NoDelay(reason) ==
    IF terminationTriggered
    THEN UNCHANGED <<terminationTriggered, termTimers>>
    ELSE /\ terminationTriggered' = TRUE
         /\ termTimers' = Append(termTimers, [reason |-> reason, due |-> now])

handleTermination_NoLatch(reason) ==
    /\ terminationTriggered' = TRUE
    /\ termTimers' = Append(termTimers, [reason |-> reason, due |-> now + GraceMs])

handleTermination(reason) ==
    IF terminationTriggered
    THEN UNCHANGED <<terminationTriggered, termTimers>>
    ELSE /\ terminationTriggered' = TRUE
         /\ termTimers' = Append(termTimers, [reason |-> reason, due |-> now + GraceMs])

----------------------------------------------------------------------------
(* App.                                                                    *)

handleFormSubmit ==
    /\ step = "FORM"
    /\ step' = "INSTRUCTIONS"
    /\ emitted' = <<>>
    /\ UNCHANGED <<result, scoringRequests, evalTimer, evalReason, statusVars, timeVars,
                   proctorVars, scriptVars, silenceVars, vadVars, playVars, resVars,
                   termVars, setupVars, isConnected, now>>

startInterview ==
    /\ step = "INSTRUCTIONS"
    /\ step' = "INTERVIEW"
    /\ emitted' = <<>>
    /\ UNCHANGED <<result, scoringRequests, evalTimer, evalReason, statusVars, timeVars,
                   proctorVars, scriptVars, silenceVars, vadVars, playVars, resVars,
                   termVars, setupVars, isConnected, now>>

handleInterviewComplete_AlwaysScore(transcript, terminationReason) ==
    /\ step' = "EVALUATING"
    /\ scoringRequests' = scoringRequests + 1
    /\ UNCHANGED <<evalTimer, evalReason, result>>

handleInterviewComplete(transcript, terminationReason) ==
    /\ step' = "EVALUATING"
    /\ IF Truthy(terminationReason) /\ terminationReason # CompletedReason
       THEN /\ evalTimer' = now + EvalDelayMs
            /\ evalReason' = terminationReason
            /\ UNCHANGED <<result, scoringRequests>>
       ELSE /\ scoringRequests' = scoringRequests + 1
            /\ UNCHANGED <<evalTimer, evalReason, result>>

EvalTimeout_StepOnly ==
    /\ evalTimer # -1 /\ evalTimer <= now
    /\ step' = "RESULT"
    /\ evalTimer' = -1
    /\ emitted' = <<>>
    /\ UNCHANGED <<result, scoringRequests, evalReason, statusVars, timeVars, proctorVars,
                   scriptVars, silenceVars, vadVars, playVars, resVars, termVars,
                   setupVars, isConnected, now>>

\* the disqualification timeout of handleInterviewComplete
EvalTimeout ==
    /\ evalTimer # -1 /\ evalTimer <= now
    /\ result' = [rating |-> 0, passed |-> FALSE, terminationReason |-> evalReason,
                  feedback |-> "Interview terminated early."]
    /\ step' = "RESULT"
    /\ evalTimer' = -1
    /\ emitted' = <<>>
    /\ UNCHANGED <<scoringRequests, evalReason, statusVars, timeVars, proctorVars,
                   scriptVars, silenceVars, vadVars, playVars, resVars, termVars,
                   setupVars, isConnected, now>>

\* a response without a rating
NoRating == -1

\* ratings the scoring endpoint may return
Ratings == {NoRating, 0, 1, 6, 7, 10}

\* data.rating || 0: line 106
RatingOrZero(r) == IF r = NoRating THEN 0 ELSE r

ScoreResponse_AtLeast(ok, rating) ==
    /\ step = "EVALUATING" /\ scoringRequests > 0 /\ evalTimer = -1
    /\ result' = IF ok
                 THEN [rating |-> RatingOrZero(rating),
                       passed |-> RatingOrZero(rating) >= PassMark,
                       terminationReason |-> Absent, feedback |-> "scored"]
                 ELSE [rating |-> 0, passed |-> FALSE, terminationReason |-> Absent,
                       feedback |-> "An error occurred during evaluation. Please try again."]
    /\ step' = "RESULT"
    /\ emitted' = <<>>
    /\ UNCHANGED <<scoringRequests, evalTimer, evalReason, statusVars, timeVars,
                   proctorVars, scriptVars, silenceVars, vadVars, playVars, resVars,
                   termVars, setupVars, isConnected, now>>

\* the continuation of handleInterviewComplete after generateContent:
\* ok = FALSE is a rejected request or unparsable JSON (the catch block)
ScoreResponse(ok, rating) ==
    /\ step = "EVALUATING" /\ scoringRequests > 0 /\ evalTimer = -1
    /\ result' = IF ok
                 THEN [rating |-> RatingOrZero(rating),
                       passed |-> RatingOrZero(rating) > PassMark,
                       terminationReason |-> Absent, feedback |-> "scored"]
                 ELSE [rating |-> 0, passed |-> FALSE, terminationReason |-> Absent,
                       feedback |-> "An error occurred during evaluation. Please try again."]
    /\ step' = "RESULT"
    /\ emitted' = <<>>
    /\ UNCHANGED <<scoringRequests, evalTimer, evalReason, statusVars, timeVars,
                   proctorVars, scriptVars, silenceVars, vadVars, playVars, resVars,
                   termVars, setupVars, isConnected, now>>

----------------------------------------------------------------------------
(* InterviewSession: mount, initSession and its continuations.             *)

SetupInProgress ==
    \/ setupPc \in {"resumeOut", "resumeIn", "media"}
    \/ setupPc = "handshake" /\ channel = "connecting"

\* initSession after the output context is running: lines 287-302
CreateInputContext(suspended) ==
    /\ inputCtx' = "running"
    /\ setupPc' = IF suspended THEN "resumeIn" ELSE "media"

\* the mount effects up to initSession's first await
Mount(suspendedOut, suspendedIn) ==
    /\ step = "INTERVIEW" /\ setupPc = "unmounted"
    /\ isMounted' = TRUE
    /\ silenceActive' = TRUE /\ silenceDue' = FALSE
    /\ IF ~apiKey
       THEN /\ status' = "error"
            /\ setupPc' = "failed"
            /\ UNCHANGED <<outputCtx, inputCtx>>
       ELSE /\ outputCtx' = "running"
            /\ UNCHANGED status
            /\ IF suspendedOut
               THEN setupPc' = "resumeOut" /\ UNCHANGED inputCtx
               ELSE CreateInputContext(suspendedIn)
    /\ emitted' = <<>>
    /\ UNCHANGED <<appVars, timerActive, countdownDue, timeVars, proctorVars, scriptVars,
                   silenceVars, vadVars, playVars, sessionRef, channel, stream,
                   processorAttached, termVars, apiKey, isConnected, now>>

\* audioContext.resume() settled
ResumedOut(suspendedIn) ==
    /\ setupPc = "resumeOut"
    /\ CreateInputContext(suspendedIn)
    /\ emitted' = <<>>
    /\ UNCHANGED <<appVars, statusVars, timeVars, proctorVars, scriptVars, silenceVars,
                   vadVars, playVars, sessionRef, channel, stream, outputCtx,
                   processorAttached, termVars, isMounted, apiKey, silenceActive,
                   silenceDue, isConnected, now>>

\* inputAudioContext.resume() settled
ResumedIn ==
    /\ setupPc = "resumeIn"
    /\ setupPc' = "media"
    /\ emitted' = <<>>
    /\ UNCHANGED <<appVars, statusVars, timeVars, proctorVars, scriptVars, silenceVars,
                   vadVars, playVars, resVars, termVars, isMounted, apiKey, silenceActive,
                   silenceDue, isConnected, now>>

\* getUserMedia resolved: lines 311-334
MediaGranted ==
    /\ setupPc = "media"
    /\ stream' = "live"
    /\ IF isMounted
       THEN setupPc' = "handshake" /\ channel' = "connecting"
       ELSE setupPc' = "returned" /\ UNCHANGED channel
    /\ emitted' = <<>>
    /\ UNCHANGED <<appVars, statusVars, timeVars, proctorVars, scriptVars, silenceVars,
                   vadVars, playVars, sessionRef, outputCtx, inputCtx, processorAttached,
                   termVars, isMounted, apiKey, silenceActive, silenceDue, isConnected,
                   now>>

SetupFailed_Silent ==
    /\ setupPc \in {"media", "handshake"}
    /\ setupPc' = "failed"
    /\ channel' = IF channel = "connecting" THEN "closed" ELSE channel
    /\ emitted' = <<>>
    /\ UNCHANGED <<appVars, statusVars, timeVars, proctorVars, scriptVars, silenceVars,
                   vadVars, playVars, sessionRef, stream, outputCtx, inputCtx,
                   processorAttached, termVars, isMounted, apiKey, silenceActive,
                   silenceDue, isConnected, now>>

\* an awaited step of initSession rejected (permission denied, connect threw):
\* the catch block, lines 586-589
SetupFailed ==
    /\ setupPc \in {"media", "handshake"}
    /\ setupPc = "handshake" => channel = "connecting"
    /\ setupPc' = "failed"
    /\ channel' = IF channel = "connecting" THEN "closed" ELSE channel
    /\ setStatus("error")
    /\ emitted' = <<>>
    /\ UNCHANGED <<appVars, timeVars, proctorVars, scriptVars, silenceVars, vadVars,
                   playVars, sessionRef, stream, outputCtx, inputCtx, processorAttached,
                   termVars, isMounted, apiKey, silenceActive, silenceDue, isConnected,
                   now>>

onopen_NoMountCheck ==
    /\ setupPc = "handshake" /\ channel = "connecting"
    /\ setupPc' = "opened"
    /\ channel' = "open"
    /\ setStatus("connected")
    /\ isConnected' = TRUE
    /\ nextAudioStartTime' = 0
    /\ processorAttached' = TRUE
    /\ emitted' = <<>>
    /\ UNCHANGED <<appVars, timeVars, proctorVars, scriptVars, silenceVars, vadVars,
                   sources, schedule, decoding, sessionRef, stream, outputCtx, inputCtx,
                   termVars, isMounted, apiKey, silenceActive, silenceDue, now>>

\* callbacks.onopen: lines 337-394
onopen ==
    /\ setupPc = "handshake" /\ channel = "connecting"
    /\ setupPc' = "opened"
    /\ IF ~isMounted
       THEN /\ channel' = "closing"
            /\ UNCHANGED <<statusVars, isConnected, nextAudioStartTime, processorAttached>>
       ELSE /\ channel' = "open"
            /\ setStatus("connected")
            /\ isConnected' = TRUE
            /\ nextAudioStartTime' = 0
            /\ processorAttached' = TRUE
    /\ emitted' = <<>>
    /\ UNCHANGED <<appVars, timeVars, proctorVars, scriptVars, silenceVars, vadVars,
                   sources, schedule, decoding, sessionRef, stream, outputCtx, inputCtx,
                   termVars, isMounted, apiKey, silenceActive, silenceDue, now>>

\* sessionRef.current = await sessionPromise: line 584
Adopt ==
    /\ setupPc = "opened"
    /\ setupPc' = "ready"
    /\ sessionRef' = TRUE
    /\ emitted' = <<>>
    /\ UNCHANGED <<appVars, statusVars, timeVars, proctorVars, scriptVars, silenceVars,
                   vadVars, playVars, channel, stream, outputCtx, inputCtx,
                   processorAttached, termVars, isMounted, apiKey, silenceActive,
                   silenceDue, isConnected, now>>

\* callbacks.onerror: lines 525-528; an error before the open event is a
\* failed handshake: the websocket closes without ever opening, and the
\* close that follows finds isConnectedRef false
onerror ==
    /\ channel \in {"connecting", "open"}
    /\ channel' = IF channel = "connecting" THEN "closed" ELSE channel
    /\ setStatus("error")
    /\ emitted' = <<>>
    /\ UNCHANGED <<appVars, timeVars, proctorVars, scriptVars, silenceVars, vadVars,
                   playVars, sessionRef, stream, outputCtx, inputCtx, processorAttached,
                   termVars, setupVars, isConnected, now>>

onclose_Unguarded ==
    /\ channel \in {"open", "closing"}
    /\ channel' = "closed"
    /\ setStatus("connecting")
    /\ emitted' = <<>>
    /\ UNCHANGED <<appVars, timeVars, proctorVars, scriptVars, silenceVars, vadVars,
                   playVars, sessionRef, stream, outputCtx, inputCtx, processorAttached,
                   termVars, setupVars, isConnected, now>>

\* callbacks.onclose: lines 529-533; the websocket has closed, by the remote
\* end or after close() was called on the handle
onclose ==
    /\ channel \in {"open", "closing"}
    /\ channel' = "closed"
    /\ IF isConnected THEN setStatus("connecting")
       ELSE UNCHANGED <<status, timerActive, countdownDue>>
    /\ emitted' = <<>>
    /\ UNCHANGED <<appVars, timeVars, proctorVars, scriptVars, silenceVars, vadVars,
                   playVars, sessionRef, stream, outputCtx, inputCtx, processorAttached,
                   termVars, setupVars, isConnected, now>>

\* the cleanup of the effects, run by React once the App has left the
\* INTERVIEW step: lines 146, 163-166, 650-654
Unmount ==
    /\ isMounted /\ step # "INTERVIEW"
    /\ isMounted' = FALSE
    /\ silenceActive' = FALSE /\ silenceDue' = FALSE
    /\ timerActive' = FALSE /\ countdownDue' = FALSE
    /\ disconnect
    /\ emitted' = <<EffDisconnect>> \o Releases
    /\ UNCHANGED <<appVars, status, timeVars, proctorVars, scriptVars, silenceVars,
                   vadVars, termVars, setupPc, apiKey, now>>

----------------------------------------------------------------------------
(* Termination triggers.                                                   *)

CountdownTick_OffByOne ==
    /\ timerActive /\ countdownDue
    /\ countdownDue' = FALSE
    /\ IF timeLeft <= 0
       THEN /\ timerActive' = FALSE
            /\ handleTermination(TimeLimitReason)
            /\ timeLeft' = 0
            /\ emitted' = <<EffTerminate(TimeLimitReason)>>
       ELSE /\ timeLeft' = timeLeft - 1
            /\ emitted' = <<>>
            /\ UNCHANGED <<timerActive, terminationTriggered, termTimers>>
    /\ UNCHANGED <<appVars, status, proctorVars, scriptVars, silenceVars, vadVars,
                   playVars, resVars, completed, setupVars, isConnected, now>>

\* the interval callback of the TIMER LOGIC effect: lines 136-145
CountdownTick ==
    /\ timerActive /\ countdownDue
    /\ countdownDue' = FALSE
    /\ IF timeLeft <= 1
       THEN /\ timerActive' = FALSE
            /\ handleTermination(TimeLimitReason)
            /\ timeLeft' = 0
            /\ emitted' = <<EffTerminate(TimeLimitReason)>>
       ELSE /\ timeLeft' = timeLeft - 1
            /\ emitted' = <<>>
            /\ UNCHANGED <<timerActive, terminationTriggered, termTimers>>
    /\ UNCHANGED <<appVars, status, proctorVars, scriptVars, silenceVars, vadVars,
                   playVars, resVars, completed, setupVars, isConnected, now>>

triggerViolation_StrikeFour(msg) ==
    /\ warningCount' = warningCount + 1
    /\ IF warningCount + 1 >= StrikeLimit + 1
       THEN /\ handleTermination(SecurityReason)
            /\ emitted' = <<EffViolation(msg), EffTerminate(SecurityReason)>>
       ELSE /\ UNCHANGED <<terminationTriggered, termTimers>>
            /\ emitted' = <<EffViolation(msg)>>

\* triggerViolation: lines 169-179
triggerViolation(msg) ==
    /\ warningCount' = warningCount + 1
    /\ IF warningCount + 1 >= StrikeLimit
       THEN /\ handleTermination(SecurityReason)
            /\ emitted' = <<EffViolation(msg), EffTerminate(SecurityReason)>>
       ELSE /\ UNCHANGED <<terminationTriggered, termTimers>>
            /\ emitted' = <<EffViolation(msg)>>

\* the visibilitychange listener, registered while mounted: lines 152-156
handleVisibilityChange(hidden) ==
    /\ isMounted
    /\ warningCount < MaxViolations
    /\ IF hidden
       THEN triggerViolation("Tab switch detected.")
       ELSE /\ emitted' = <<>>
            /\ UNCHANGED <<warningCount, terminationTriggered, termTimers>>
    /\ UNCHANGED <<appVars, statusVars, timeVars, scriptVars, silenceVars, vadVars,
                   playVars, resVars, completed, setupVars, isConnected, now>>

\* the setTimeout callback of handleTermination: lines 127-130
GraceTimeout ==
    /\ IF termTimers = <<>> THEN FALSE ELSE Head(termTimers).due <= now
    /\ termTimers' = Tail(termTimers)
    /\ disconnect
    /\ completed' = Append(completed, [transcript |-> Join(fullTranscriptHistory),
                                       reason |-> Head(termTimers).reason])
    /\ handleInterviewComplete(Join(fullTranscriptHistory), Head(termTimers).reason)
    /\ emitted' = <<EffDisconnect>> \o Releases \o
                  <<EffComplete(Join(fullTranscriptHistory), Head(termTimers).reason)>>
    /\ UNCHANGED <<statusVars, timeVars, proctorVars, scriptVars, silenceVars, vadVars,
                   terminationTriggered, setupVars, now>>

----------------------------------------------------------------------------
(* Silence escalation.                                                     *)

SilentDirective ==
    <<"System", "Alert:", "Candidate", "is", "silent.", "Say", "exactly:",
      "'Please start answering when you're ready.'">>
StillSilentDirective ==
    <<"System", "Alert:", "Candidate", "is", "still", "silent.", "Treat", "this", "as",
      "a", "failed", "answer.", "Say", "exactly:",
      "'I will continue to the next question.'", "and", "ask", "the", "next",
      "question.">>

\* String.prototype.includes, on the words of a text
Includes(text, word) == \E i \in 1..Len(text) : text[i] = word

\* what sendRealtimeInput can do on the channel in state ch: an open
\* websocket takes the message; on any other it throws or drops it
SendOutcomes(ch) == IF ch = "open" THEN {"sent"} ELSE {"threw", "dropped"}

\* sendSystemMessage: lines 594-608
sendSystemMessage(text, outcome) ==
    IF sessionRef
    THEN /\ emitted' = <<EffSend(text, outcome)>>
         /\ systemMessageStatus' =
                IF outcome = "threw" THEN systemMessageStatus
                ELSE IF Includes(text, "still") THEN "Skip" ELSE "Reminder"
    ELSE /\ emitted' = <<>>
         /\ UNCHANGED systemMessageStatus

\* the synthetic entry of a skipped question: lines 635-637
AppendSilentEntry ==
    /\ transcriptLines' = IF isMounted
                          THEN Append(transcriptLines,
                                      [speaker |-> "user", text |-> SilentEntry])
                          ELSE transcriptLines
    /\ fullTranscriptHistory' =
           Append(fullTranscriptHistory, UserPrefix \o <<" ">> \o SilentEntry)

SilenceFires_NoThreshold ==
    /\ isConnected
    /\ isWaitingForResponse /\ ~isAiSpeaking /\ ~isProcessingTimeout

SilenceFires_NoLock ==
    /\ isConnected
    /\ isWaitingForResponse /\ ~isAiSpeaking
    /\ DateNow - lastAiTurnEndTime > SilenceThresholdMs

\* the conditions of lines 612, 617 and 622
SilenceFires ==
    /\ isConnected
    /\ isWaitingForResponse /\ ~isAiSpeaking /\ ~isProcessingTimeout
    /\ DateNow - lastAiTurnEndTime > SilenceThresholdMs

SkipsQuestion_AtSecond(count) == count + 1 >= SilenceStrikes

\* the firing that finds the incremented counter above 2 skips the question:
\* lines 627 and 633
SkipsQuestion(count) == count + 1 > SilenceStrikes

\* the silenceInterval callback: lines 611-648
SilenceTick ==
    /\ silenceActive /\ silenceDue
    /\ silenceDue' = FALSE
    /\ IF SilenceFires
       THEN /\ isProcessingTimeout' = TRUE
            /\ \E outcome \in SendOutcomes(channel) :
                 IF SkipsQuestion(silenceWarningCount)
                 THEN /\ AppendSilentEntry
                      /\ silenceWarningCount' = 0
                      /\ sendSystemMessage(StillSilentDirective, outcome)
                 ELSE /\ silenceWarningCount' = silenceWarningCount + 1
                      /\ sendSystemMessage(SilentDirective, outcome)
                      /\ UNCHANGED scriptVars
       ELSE /\ emitted' = <<>>
            /\ UNCHANGED <<isProcessingTimeout, silenceWarningCount,
                           systemMessageStatus, scriptVars>>
    /\ UNCHANGED <<appVars, statusVars, timeVars, proctorVars, isAiSpeaking,
                   isWaitingForResponse, lastAiTurnEndTime, vadVars, playVars, resVars,
                   termVars, isMounted, setupPc, apiKey, silenceActive, isConnected, now>>

----------------------------------------------------------------------------
(* Time.                                                                   *)

\* a callback whose time has come: it runs before the environment's next event
GraceDue == IF termTimers = <<>> THEN FALSE ELSE Head(termTimers).due <= now
EvalDue  == evalTimer # -1 /\ evalTimer <= now
EndedDue == \E i \in sources : schedule[i].end <= now
TimersDue == countdownDue \/ silenceDue \/ GraceDue \/ EvalDue \/ EndedDue

\* something is scheduled that the passing of time can bring about
TimeMatters ==
    \/ SetupInProgress
    \/ timerActive
    \/ termTimers # <<>>
    \/ evalTimer # -1
    \/ sources # {}
    \/ silenceActive /\ isConnected /\ isWaitingForResponse

\* one second passes; every callback that was due has run, and React has
\* unmounted a session whose step is over.  Seconds in which nothing is
\* scheduled change nothing but the clock and are left out.
Second(limit, setupLimit) ==
    /\ setupPc # "unmounted" /\ step \in {"INTERVIEW", "EVALUATING"}
    /\ now < limit * TickMs
    /\ SetupInProgress => now < setupLimit * TickMs
    /\ ~TimersDue
    /\ TimeMatters
    /\ ~(isMounted /\ step # "INTERVIEW")
    /\ now' = now + TickMs
    /\ countdownDue' = timerActive
    /\ silenceDue' = silenceActive
    /\ emitted' = <<>>
    /\ UNCHANGED <<appVars, status, timerActive, timeVars, proctorVars, scriptVars,
                   silenceVars, vadVars, playVars, resVars, termVars, isMounted, setupPc,
                   apiKey, silenceActive, isConnected>>

----------------------------------------------------------------------------
(* Inbound messages.                                                       *)

\* a LiveServerMessage: calls = toolCall.functionCalls (<<>> when there is no
\* tool call), each [id, name, reason]; hasContent = serverContent is present;
\* text = modelTurn.parts[0].text and input = inputTranscription.text (<<>>
\* when absent or empty); audio = the inline payload: 0 none, -1 malformed,
\* otherwise the duration in ms of the buffer it decodes to
Msg(calls, hasContent, interrupted, turnComplete, text, input, audio) ==
    [calls |-> calls, hasContent |-> hasContent, interrupted |-> interrupted,
     turnComplete |-> turnComplete, text |-> text, input |-> input, audio |-> audio]

Call(id, name, reason) == [id |-> id, name |-> name, reason |-> reason]

\* functionCalls.find(f => f.name === 'endInterview'): index of the first, 0 if none
FindEnd(calls) ==
    IF \E i \in 1..Len(calls) : calls[i].name = "endInterview"
    THEN CHOOSE i \in 1..Len(calls) :
            /\ calls[i].name = "endInterview"
            /\ \A j \in 1..(i - 1) : calls[j].name # "endInterview"
    ELSE 0

\* functionCalls.map(fc => ({id, name, response})): lines 410-414
Acks_OnlyEnd(calls) == SelectSeq([i \in 1..Len(calls) |-> [id |-> calls[i].id, name |-> calls[i].name]],
                               LAMBDA a : a.name = "endInterview")

Acks(calls) == [i \in 1..Len(calls) |-> [id |-> calls[i].id, name |-> calls[i].name]]

\* the AI transcript merge into the display list: lines 461-468
MergeAiLines(lines, displayText) ==
    IF lines # <<>> /\ lines[Len(lines)].speaker = "ai"
    THEN [lines EXCEPT ![Len(lines)].text = @ \o <<" ">> \o displayText]
    ELSE Append(lines, [speaker |-> "ai", text |-> displayText])

MergeAiHistory_AlwaysPush(h, displayText) == Append(h, AiPrefix \o <<" ">> \o displayText)

\* the AI transcript merge into the history: lines 471-475
MergeAiHistory(h, displayText) ==
    IF h # <<>> /\ StartsWith(h[Len(h)], AiPrefix)
    THEN [h EXCEPT ![Len(h)] = @ \o <<" ">> \o displayText]
    ELSE Append(h, AiPrefix \o <<" ">> \o displayText)

\* the user transcript merge into the display list: lines 483-490
MergeUserLines(lines, text) ==
    IF lines # <<>> /\ lines[Len(lines)].speaker = "user"
    THEN [lines EXCEPT ![Len(lines)].text = @ \o text]
    ELSE Append(lines, [speaker |-> "user", text |-> text])

\* the user transcript merge into the history: lines 493-497
MergeUserHistory(h, text) ==
    IF h # <<>> /\ StartsWith(h[Len(h)], UserPrefix)
    THEN [h EXCEPT ![Len(h)] = @ \o text]
    ELSE Append(h, UserPrefix \o <<" ">> \o text)

\* a React state update: dropped once the component is unmounted
SetState(old, new) == IF isMounted THEN new ELSE old

\* the start time of a newly scheduled buffer: line 515
StartTime_IgnoreCursor(clock, cursor) == clock

StartTime(clock, cursor) == Max(clock, cursor)

CursorAfterFlush_Stale(cursor) == cursor

\* the cursor after an interruption: line 431
CursorAfterFlush(cursor) == 0

AiSpeakingAfter_ContentWins(m, speaking) ==
    IF m.hasContent THEN TRUE
    ELSE IF m.turnComplete THEN FALSE
    ELSE IF m.interrupted THEN FALSE ELSE speaking

\* isAiSpeakingRef after the isInterrupted, hasContent and isTurnComplete
\* blocks, which run in that order: lines 432, 441, 451
AiSpeakingAfter(m, speaking) ==
    IF m.turnComplete THEN FALSE
    ELSE IF m.hasContent THEN TRUE
    ELSE IF m.interrupted THEN FALSE ELSE speaking

TurnEndAfter_ContentWins(m, t) ==
    IF m.hasContent THEN 0
    ELSE IF m.turnComplete THEN DateNow ELSE t

\* lastAiTurnEndTimeRef after the hasContent and isTurnComplete blocks, which
\* run in that order: lines 442, 452
TurnEndAfter(m, t) ==
    IF m.turnComplete THEN DateNow
    ELSE IF m.hasContent THEN 0 ELSE t

\* callbacks.onmessage: lines 395-524.  The handler's synchronous part runs
\* first; the acknowledgement (a continuation of sessionPromise) follows as a
\* microtask.  With awaits = FALSE the part after "await decodeAudioData" is
\* taken in the same step; with awaits = TRUE the handler stops at the await
\* and leaves the buffer to its continuation (Decoded).
Handler(m, awaits) ==
    LET idx       == FindEnd(m.calls)
        ends      == idx # 0
        reason    == OrElse(m.calls[idx].reason, CompletedReason)
        displayText == Trim(m.text)
        flush     == m.interrupted
        unlock    == m.interrupted \/ m.hasContent
        \* lines 457-477, then 480-499
        lines1    == IF displayText # <<>> THEN MergeAiLines(transcriptLines, displayText)
                     ELSE transcriptLines
        hist1     == IF displayText # <<>>
                     THEN MergeAiHistory(fullTranscriptHistory, displayText)
                     ELSE fullTranscriptHistory
        lines2    == IF m.input # <<>> THEN MergeUserLines(lines1, m.input) ELSE lines1
        hist2     == IF m.input # <<>> THEN MergeUserHistory(hist1, m.input) ELSE hist1
        \* lines 425-431
        sched1    == IF flush THEN StopSources(schedule, sources, now) ELSE schedule
        srcs1     == IF flush THEN {} ELSE sources
        cursor1   == IF flush THEN CursorAfterFlush(nextAudioStartTime)
                     ELSE nextAudioStartTime
        \* lines 502-523: a malformed payload rejects the handler in the decode
        plays     == m.audio > 0 /\ outputCtx # "none"
        startTime == StartTime(now, cursor1)
    IN
    /\ channel = "open"
    /\ IF ends THEN handleTermination(reason)
       ELSE UNCHANGED <<terminationTriggered, termTimers>>
    /\ isAiSpeaking' = AiSpeakingAfter(m, isAiSpeaking)
    /\ lastAiTurnEndTime' = TurnEndAfter(m, lastAiTurnEndTime)
    /\ isWaitingForResponse' = IF m.turnComplete THEN TRUE
                               ELSE IF unlock THEN FALSE ELSE isWaitingForResponse
    /\ systemMessageStatus' = IF unlock THEN SetState(systemMessageStatus, "null")
                              ELSE systemMessageStatus
    /\ isProcessingTimeout' = IF unlock THEN FALSE ELSE isProcessingTimeout
    /\ transcriptLines' = SetState(transcriptLines, lines2)
    /\ fullTranscriptHistory' = hist2
    /\ IF plays /\ ~awaits
       THEN /\ schedule' = Append(sched1, [start |-> startTime, end |-> startTime + m.audio])
            /\ nextAudioStartTime' = startTime + m.audio
            /\ sources' = srcs1 \cup {Len(schedule) + 1}
       ELSE /\ schedule' = sched1
            /\ nextAudioStartTime' = cursor1
            /\ sources' = srcs1
    /\ decoding' = IF plays /\ awaits THEN Append(decoding, m.audio) ELSE decoding
    /\ emitted' = (IF ends THEN <<EffTerminate(reason), EffAck(Acks(m.calls))>> ELSE <<>>)
                  \o (IF plays /\ ~awaits THEN <<EffStart(startTime)>> ELSE <<>>)
    /\ UNCHANGED <<appVars, statusVars, timeVars, proctorVars, silenceWarningCount,
                   vadVars, resVars, completed, setupVars, isConnected, now>>

\* the handler and its continuation in one step: the decode's promise is
\* settled without leaving the turn, so the continuation runs before any
\* other handler
onmessage(m) == Handler(m, FALSE)

\* the handler up to its await: lines 395-505
onmessageAwait(m) == Handler(m, TRUE)

\* the handler's continuation after "await decodeAudioData": lines 507-521
Decoded ==
    LET startTime == StartTime(now, nextAudioStartTime)
    IN
    /\ decoding # <<>>
    /\ decoding' = Tail(decoding)
    /\ schedule' = Append(schedule, [start |-> startTime,
                                     end |-> startTime + Head(decoding)])
    /\ nextAudioStartTime' = startTime + Head(decoding)
    /\ sources' = sources \cup {Len(schedule) + 1}
    /\ emitted' = <<EffStart(startTime)>>
    /\ UNCHANGED <<appVars, statusVars, timeVars, proctorVars, scriptVars, silenceVars,
                   vadVars, resVars, termVars, setupVars, isConnected, now>>

\* source.onended: line 521
onended(i) ==
    /\ i \in sources /\ schedule[i].end <= now
    /\ sources' = sources \ {i}
    /\ emitted' = <<>>
    /\ UNCHANGED <<appVars, statusVars, timeVars, proctorVars, scriptVars, silenceVars,
                   vadVars, nextAudioStartTime, schedule, decoding, resVars, termVars,
                   setupVars, isConnected, now>>

----------------------------------------------------------------------------
(* Capture.                                                                *)

\* The code computes in binary floating point, rounding every product and
\* sum to the nearest representable number (ties to even).  The model keeps
\* that arithmetic at a reduced precision: a number is a count of millionths
\* whose significand has FloatBits bits.
RECURSIVE Pow2(_)
Pow2(k) == IF k = 0 THEN 1 ELSE 2 * Pow2(k - 1)

\* the number of significands
Significands == Pow2(FloatBits)

\* the spacing of the representable numbers at magnitude q
RECURSIVE UlpFrom(_, _)
UlpFrom(q, u) == IF q < Significands * u THEN u ELSE UlpFrom(q, 2 * u)
Ulp(q) == UlpFrom(q, 1)

\* num / den rounded to the nearest integer, ties to even
RoundEven(num, den) ==
    LET q == num \div den
        r == num % den
    IN IF 2 * r > den \/ (2 * r = den /\ q % 2 = 1) THEN q + 1 ELSE q

\* num / den rounded to the nearest representable number
Fl(num, den) ==
    LET u == Ulp(num \div den)
    IN RoundEven(num, den * u) * u

\* the literal c / 100 as the compiler stores it: a significand of FloatBits
\* bits over a power of two
RECURSIVE CoefDen(_, _)
CoefDen(c, d) == IF 2 * c * d >= 100 * Significands THEN d ELSE CoefDen(c, 2 * d)
Coef(c) == [m |-> RoundEven(c * CoefDen(c, 1), 100), d |-> CoefDen(c, 1)]

\* 1 - alpha, computed at run time from the stored alpha: line 362
OneMinus(a) == [m |-> RoundEven(a.d - a.m, a.d \div Significands),
                d |-> Significands]

\* the literals of lines 359-362
Keep    == Coef(90)
Take    == Coef(10)
Alpha   == Coef(5)
NotAlpha == OneMinus(Alpha)

\* x * c and a + b as the code computes them
Mul(x, c) == Fl(x * c.m, c.d)
Add(a, b) == Fl(a + b, 1)

NoiseFloorAfter_NoCeiling(floor, rms) ==
    IF rms < floor THEN Add(Mul(floor, Keep), Mul(rms, Take))
    ELSE Add(Mul(floor, NotAlpha), Mul(rms, Alpha))

NoiseFloorAfter_MovesAtTriple(floor, rms) ==
    IF rms < floor THEN Add(Mul(floor, Keep), Mul(rms, Take))
    ELSE IF rms <= Fl(floor * 3, 1)
         THEN Add(Mul(floor, NotAlpha), Mul(rms, Alpha))
    ELSE floor

\* the noise floor after a frame of the given rms: lines 359-362
NoiseFloorAfter(floor, rms) ==
    IF rms < floor THEN Add(Mul(floor, Keep), Mul(rms, Take))
    ELSE IF rms < Fl(floor * 3, 1)
         THEN Add(Mul(floor, NotAlpha), Mul(rms, Alpha))
    ELSE floor

DetectionThreshold_NoMinimum(floor) == Fl(floor * ThresholdFactor, 1)

\* Math.max(0.03, noiseFloorRef.current * 6), the product rounded as the code
\* computes it: line 365
DetectionThreshold(floor) == Max(MinThreshold, Fl(floor * ThresholdFactor, 1))

StrikesAfterFrame_Kept(speaking, count) == count

\* the strike counter after a frame: line 374
StrikesAfterFrame(speaking, count) == IF speaking THEN 0 ELSE count

FrameSent_SpeechOnly(speaking, outLen) == speaking /\ outLen > 0

\* whether the frame is handed to sendRealtimeInput: line 381
FrameSent(speaking, outLen) == outLen > 0

\* scriptProcessor.onaudioprocess for a frame of the given rms (in
\* millionths) whose resampled data has outLen samples: lines 349-393
onaudioprocess(rms, outLen) ==
    LET floor1   == NoiseFloorAfter(noiseFloor, rms)
        speaking == rms > DetectionThreshold(floor1)
    IN
    /\ processorAttached
    /\ IF ~isConnected \/ ~isMounted
       THEN /\ emitted' = <<>>
            /\ UNCHANGED <<vadVars, isWaitingForResponse, systemMessageStatus,
                           silenceWarningCount>>
       ELSE /\ noiseFloor' = floor1
            /\ isUserSpeaking' = speaking
            /\ UNCHANGED <<isMuted, tracksEnabled>>
            /\ isWaitingForResponse' = IF speaking THEN FALSE ELSE isWaitingForResponse
            /\ systemMessageStatus' = IF speaking THEN "null" ELSE systemMessageStatus
            /\ silenceWarningCount' = StrikesAfterFrame(speaking, silenceWarningCount)
            /\ IF FrameSent(speaking, outLen)
               THEN \E outcome \in SendOutcomes(channel) :
                        emitted' = <<EffSend(<<"media">>, outcome)>>
               ELSE emitted' = <<>>
    /\ UNCHANGED <<appVars, statusVars, timeVars, proctorVars, scriptVars, isAiSpeaking,
                   isProcessingTimeout, lastAiTurnEndTime, playVars, resVars, termVars,
                   setupVars, isConnected, now>>

\* the enabled attribute toggleMute gives the audio tracks: line 659
TracksAfterToggle(muted) == ~muted

\* toggleMute, the handler of the microphone button: lines 657-662
toggleMute ==
    /\ isMounted
    /\ IF stream = "live"
       THEN /\ tracksEnabled' = TracksAfterToggle(isMuted)
            /\ isMuted' = ~isMuted
       ELSE UNCHANGED <<isMuted, tracksEnabled>>
    /\ emitted' = <<>>
    /\ UNCHANGED <<appVars, statusVars, timeVars, proctorVars, scriptVars, silenceVars,
                   noiseFloor, isUserSpeaking, playVars, resVars, termVars, setupVars,
                   isConnected, now>>

----------------------------------------------------------------------------
(* The environment's inputs.                                               *)

\* tool-call batches: an endInterview call alone, after or before another
\* call, twice, or not at all; its reason absent, empty, "Completed" or other
ToolBatches ==
    {<<Call("c1", "endInterview", Absent)>>,
     <<Call("c1", "lookup", Absent), Call("c2", "endInterview", "")>>,
     <<Call("c1", "endInterview", "Candidate asked to stop"),
       Call("c2", "endInterview", CompletedReason)>>,
     <<Call("c1", "endInterview", CompletedReason), Call("c2", "lookup", Absent)>>,
     <<Call("c1", "lookup", Absent)>>}

EndMessage ==
    Msg(<<Call("c1", "endInterview", Absent)>>, FALSE, FALSE, FALSE, <<>>, <<>>, 0)

ToolMessages == {Msg(b, FALSE, FALSE, FALSE, <<>>, <<>>, 0) : b \in ToolBatches}

\* a message without serverContent: a tool call that does not end the interview
LookupMessage ==
    Msg(<<Call("c1", "lookup", Absent)>>, FALSE, FALSE, FALSE, <<>>, <<>>, 0)

\* serverContent messages without text or audio
ControlMessages ==
    {Msg(<<>>, TRUE, i, t, <<>>, <<>>, 0) : i \in BOOLEAN, t \in BOOLEAN}

Fragments == {<<"a">>, <<" ">>, <<" ", "b", " ">>}

TextMessages ==
    {Msg(<<>>, TRUE, FALSE, t, x, <<>>, 0) : t \in BOOLEAN, x \in Fragments}
    \cup {Msg(<<>>, TRUE, FALSE, FALSE, <<>>, x, 0) : x \in Fragments}
    \cup {Msg(<<>>, TRUE, FALSE, FALSE, <<"a">>, <<"b">>, 0)}

\* buffer durations in ms; -1 is a payload that does not decode
Payloads == {-1, 500, 1000, 2500}

AudioMessages ==
    {Msg(<<>>, TRUE, i, FALSE, <<>>, <<>>, a) : i \in BOOLEAN, a \in Payloads}

\* the number of characters on display
RECURSIVE Spoken(_)
Spoken(lines) ==
    IF lines = <<>> THEN 0 ELSE Len(Head(lines).text) + Spoken(Tail(lines))

\* the bounds on what the environment delivers
Deliverable(m) ==
    /\ (m.text # <<>> \/ m.input # <<>>) => Spoken(transcriptLines) < MaxTranscript
    /\ m.audio > 0 => Len(schedule) + Len(decoding) < MaxBuffers

\* frame levels, in millionths: ambient at the initial floor, and speech
RmsLevels == {InitialNoiseFloor, 50000}

\* the representable numbers next above and next below n
Succ(n) == n + Ulp(n)
Pred(n) == IF n = 0 THEN 0 ELSE n - Ulp(n - 1)

\* frame levels around the regime boundaries of the floor f: silence, just
\* below, at and just above the floor, well below it, just below and at three
\* times the floor, and ten times the floor
NoiseLevels(f) ==
    {0, Pred(f), f, Succ(f), Fl(f * 3, 4), Pred(Fl(f * 3, 1)), Fl(f * 3, 1),
     Fl(f * 10, 1)}

\* frame levels around the detection threshold of the floor f, besides those
\* around the floor's own regime boundaries: between six times the floor and
\* the minimum threshold, and just below, at, just above and well above the
\* threshold
VadLevels(f) ==
    NoiseLevels(f)
    \cup {Fl(f * 7, 1), Pred(DetectionThreshold(f)), Fl(DetectionThreshold(f), 1),
          Succ(Fl(DetectionThreshold(f), 1)), Fl(DetectionThreshold(f) * 2, 1)}

\* lengths of a frame's resampled data: downsampleBuffer's result, line 381
FrameLengths == {0, 1}

----------------------------------------------------------------------------
(* Specifications.                                                         *)

\* the App's navigation and initSession
Setup ==
    \/ handleFormSubmit
    \/ startInterview
    \/ \E so \in BOOLEAN, si \in BOOLEAN : Mount(so, si)
    \/ \E si \in BOOLEAN : ResumedOut(si)
    \/ ResumedIn
    \/ MediaGranted
    \/ SetupFailed
    \/ onopen

\* the callbacks of the two intervals
Ticks ==
    \/ CountdownTick
    \/ SilenceTick

ChannelEvents ==
    \/ onerror
    \/ onclose

Termination ==
    \/ \E hidden \in BOOLEAN : handleVisibilityChange(hidden)
    \/ \E ok \in BOOLEAN, r \in Ratings : ScoreResponse(ok, r)

DecodePending_LaterTask == FALSE

\* the promise of decodeAudioData is settled by the time the handler awaits
\* it (the decoder builds the buffer without suspending), so the handler's
\* continuation is a microtask
DecodePending == decoding # <<>>

\* a microtask continuation runs before any other handler
Microtask == setupPc = "opened" \/ DecodePending

\* the environment's next event comes when no callback is due
Quiet == ~Microtask /\ ~TimersDue

\* the session's lifecycle and every termination trigger but the countdown's
\* end, which lies beyond the horizon; the agent sends tool calls only
Next ==
    \/ Adopt
    \/ ~Microtask /\ Ticks
    \/ ~Microtask /\ GraceTimeout
    \/ ~Microtask /\ EvalTimeout
    \/ ~Microtask /\ Unmount
    \/ Quiet /\ Setup
    \/ Quiet /\ ChannelEvents
    \/ Quiet /\ Termination
    \/ Quiet /\ \E m \in ToolMessages : onmessage(m)
    \/ ~Microtask /\ Second(MaxClockTermination, MaxSetupDelay)

Spec == Init /\ [][Next]_vars

\* the same over the whole time budget, with fewer inputs: one tool call that
\* ends the interview, and two scoring outcomes
NextCountdown ==
    \/ Adopt
    \/ ~Microtask /\ Ticks
    \/ ~Microtask /\ GraceTimeout
    \/ ~Microtask /\ EvalTimeout
    \/ ~Microtask /\ Unmount
    \/ Quiet /\ Setup
    \/ Quiet /\ ChannelEvents
    \/ Quiet /\ \E hidden \in BOOLEAN : handleVisibilityChange(hidden)
    \/ Quiet /\ \E ok \in BOOLEAN : ScoreResponse(ok, PassMark + 1)
    \/ Quiet /\ onmessage(EndMessage)
    \/ ~Microtask /\ Second(MaxClockLong, MaxSetupDelayLong)

SpecCountdown == Init /\ [][NextCountdown]_vars

\* a conversation with a candidate who may or may not speak, on a channel
\* that may close; no termination
NextSilence ==
    \/ Adopt
    \/ ~Microtask /\ Ticks
    \/ Quiet /\ Setup
    \/ Quiet /\ onclose
    \/ Quiet /\ \E m \in ControlMessages : onmessage(m)
    \/ Quiet /\ onmessage(LookupMessage)
    \/ Quiet /\ \E rms \in RmsLevels : onaudioprocess(rms, 1)
    \/ ~Microtask /\ Second(MaxClock, MaxSetupDelay)

SpecSilence == Init /\ [][NextSilence]_vars

\* the agent's audio, with interruptions
NextPlayback ==
    \/ Adopt
    \/ ~Microtask /\ Ticks
    \/ ~Microtask /\ \E i \in sources : onended(i)
    \/ Quiet /\ Setup
    \/ Quiet /\ \E m \in AudioMessages : Deliverable(m) /\ onmessage(m)
    \/ ~Microtask /\ Second(MaxClockPlayback, MaxSetupDelay)

SpecPlayback == Init /\ [][NextPlayback]_vars

\* the agent's and the candidate's text
NextTranscript ==
    \/ Adopt
    \/ ~Microtask /\ Ticks
    \/ Quiet /\ Setup
    \/ Quiet /\ \E m \in TextMessages : Deliverable(m) /\ onmessage(m)
    \/ ~Microtask /\ Second(MaxClockTranscript, MaxSetupDelay)

SpecTranscript == Init /\ [][NextTranscript]_vars

\* a conversation in text: the agent speaks and ends its turn, the candidate
\* answers or stays silent until the question is skipped
ScriptMessages ==
    {Msg(<<>>, TRUE, FALSE, TRUE, <<"a">>, <<>>, 0),
     Msg(<<>>, TRUE, FALSE, TRUE, <<>>, <<>>, 0),
     Msg(<<>>, TRUE, FALSE, FALSE, <<>>, <<"b">>, 0)}

NextScript ==
    \/ Adopt
    \/ ~Microtask /\ Ticks
    \/ Quiet /\ Setup
    \/ Quiet /\ \E m \in ScriptMessages : Deliverable(m) /\ onmessage(m)
    \/ ~Microtask /\ Second(MaxClock, MaxSetupDelayLong)

SpecScript == Init /\ [][NextScript]_vars

\* a slow setup: devices and handshake may take longer than the grace delay
\* of a termination that the candidate's violations bring about meanwhile
NextHandshake ==
    \/ Adopt
    \/ ~Microtask /\ Ticks
    \/ ~Microtask /\ GraceTimeout
    \/ ~Microtask /\ EvalTimeout
    \/ ~Microtask /\ Unmount
    \/ Quiet /\ Setup
    \/ Quiet /\ ChannelEvents
    \/ Quiet /\ \E hidden \in BOOLEAN : handleVisibilityChange(hidden)
    \/ ~Microtask /\ Second(MaxClockTermination, MaxSetupDelaySlow)

SpecHandshake == Init /\ [][NextHandshake]_vars

\* a conversation in text that the agent or the candidate's violations end
NextHandoff ==
    \/ Adopt
    \/ ~Microtask /\ Ticks
    \/ ~Microtask /\ GraceTimeout
    \/ ~Microtask /\ EvalTimeout
    \/ ~Microtask /\ Unmount
    \/ Quiet /\ Setup
    \/ Quiet /\ \E m \in ScriptMessages \cup {EndMessage} : Deliverable(m) /\ onmessage(m)
    \/ Quiet /\ \E hidden \in BOOLEAN : handleVisibilityChange(hidden)
    \/ Quiet /\ \E ok \in BOOLEAN : ScoreResponse(ok, PassMark + 1)
    \/ ~Microtask /\ Second(MaxClockHandoff, MaxSetupDelayLong)

SpecHandoff == Init /\ [][NextHandoff]_vars

\* the capture loop over the session's life: frames arrive before and after
\* the open event, after a channel error or close, and after teardown
NextCapture ==
    \/ Adopt
    \/ ~Microtask /\ Ticks
    \/ ~Microtask /\ GraceTimeout
    \/ ~Microtask /\ EvalTimeout
    \/ ~Microtask /\ Unmount
    \/ Quiet /\ Setup
    \/ Quiet /\ ChannelEvents
    \/ Quiet /\ \E hidden \in BOOLEAN : handleVisibilityChange(hidden)
    \/ Quiet /\ \E rms \in RmsLevels, n \in FrameLengths : onaudioprocess(rms, n)
    \/ ~Microtask /\ Second(MaxClockCapture, MaxSetupDelayLong)

SpecCapture == Init /\ [][NextCapture]_vars

\* the noise floor under frames of levels around its regime boundaries
NextNoise ==
    \/ Adopt
    \/ Quiet /\ Setup
    \/ Quiet /\ \E rms \in NoiseLevels(noiseFloor) :
                  noiseFloor <= MaxNoiseFloor /\ onaudioprocess(rms, 1)

SpecNoise == Init /\ [][NextNoise]_vars

\* voice detection: the floor is driven up until six times the floor exceeds
\* the minimum threshold, under frames around the threshold
NextVad ==
    \/ Adopt
    \/ Quiet /\ Setup
    \/ Quiet /\ \E rms \in VadLevels(noiseFloor) :
                  noiseFloor <= MaxVadFloor /\ onaudioprocess(rms, 1)

SpecVad == Init /\ [][NextVad]_vars

\* the agent's audio, with interruptions, the handler and its continuation
\* after the decode taken as the two steps they are
NextDecode ==
    \/ Adopt
    \/ Decoded
    \/ ~Microtask /\ Ticks
    \/ ~Microtask /\ \E i \in sources : onended(i)
    \/ Quiet /\ Setup
    \/ Quiet /\ \E m \in AudioMessages : Deliverable(m) /\ onmessageAwait(m)
    \/ ~Microtask /\ Second(MaxClockPlayback, MaxSetupDelay)

SpecDecode == Init /\ [][NextDecode]_vars

\* a candidate who stays silent after the agent's turn and whose violations
\* end the interview: the silence monitor and the grace delay of a termination
NextGrace ==
    \/ Adopt
    \/ ~Microtask /\ Ticks
    \/ ~Microtask /\ GraceTimeout
    \/ ~Microtask /\ EvalTimeout
    \/ ~Microtask /\ Unmount
    \/ Quiet /\ Setup
    \/ Quiet /\ \E m \in ControlMessages : onmessage(m)
    \/ Quiet /\ \E hidden \in BOOLEAN : handleVisibilityChange(hidden)
    \/ ~Microtask /\ Second(MaxClockGrace, MaxSetupDelayLong)

SpecGrace == Init /\ [][NextGrace]_vars

\* the microphone button during a session with frames, channel events and
\* violations
NextMute ==
    \/ Adopt
    \/ Quiet /\ Setup
    \/ Quiet /\ ChannelEvents
    \/ Quiet /\ toggleMute
    \/ Quiet /\ \E hidden \in BOOLEAN : handleVisibilityChange(hidden)
    \/ Quiet /\ \E rms \in RmsLevels : onaudioprocess(rms, 1)

SpecMute == Init /\ [][NextMute]_vars

\* seconds from a termination to the result of a disqualified interview: the
\* grace delay, then the evaluation delay, in whole ticks
SettleSeconds == (GraceMs + EvalDelayMs + TickMs) \div TickMs

\* the environment still acts
InTime == now <= MaxClockTrigger * TickMs

\* an interview that the agent or the candidate's violations end, up to its
\* result: the environment acts during the first seconds, and the clock runs
\* on until every timeout that a termination started has run
NextResult ==
    \/ Adopt
    \/ ~Microtask /\ Ticks
    \/ ~Microtask /\ GraceTimeout
    \/ ~Microtask /\ EvalTimeout
    \/ ~Microtask /\ Unmount
    \/ Quiet /\ Setup
    \/ Quiet /\ InTime /\ ChannelEvents
    \/ Quiet /\ InTime /\ \E m \in ToolMessages : onmessage(m)
    \/ Quiet /\ InTime /\ \E hidden \in BOOLEAN : handleVisibilityChange(hidden)
    \/ Quiet /\ \E ok \in BOOLEAN, r \in Ratings : ScoreResponse(ok, r)
    \/ ~Microtask /\ Second(MaxClockTrigger + SettleSeconds, MaxSetupDelayLong)

SpecResult == Init /\ [][NextResult]_vars

\* the result specification with the event loop's guarantees, and a scoring
\* request that settles: it is answered or it fails
FairResult ==
    /\ SpecResult
    /\ WF_vars(Adopt)
    /\ WF_vars(~Microtask /\ Ticks)
    /\ WF_vars(~Microtask /\ GraceTimeout)
    /\ WF_vars(~Microtask /\ EvalTimeout)
    /\ WF_vars(~Microtask /\ Unmount)
    /\ WF_vars(Quiet /\ \E ok \in BOOLEAN, r \in Ratings : ScoreResponse(ok, r))
    /\ WF_vars(~Microtask /\ Second(MaxClockTrigger + SettleSeconds, MaxSetupDelayLong))

\* the countdown specification with the event loop's guarantees: a due
\* callback runs, a continuation resumes, React unmounts, and time passes
FairCountdown ==
    /\ SpecCountdown
    /\ WF_vars(Adopt)
    /\ WF_vars(~Microtask /\ Ticks)
    /\ WF_vars(~Microtask /\ GraceTimeout)
    /\ WF_vars(~Microtask /\ EvalTimeout)
    /\ WF_vars(~Microtask /\ Unmount)
    /\ WF_vars(~Microtask /\ Second(MaxClockLong, MaxSetupDelayLong))

----------------------------------------------------------------------------
(* Claims.                                                                 *)

\* the handleTermination invocations among a handler's outward calls
TermCalls(es) == SelectSeq(es, LAMBDA e : e.op = "handleTermination")

\* C1: whatever the sequence and interleaving of termination triggers
\* (countdown reaching zero, third strike, endInterview call), handleTermination
\* takes effect for the first one only: that invocation sets the latch and
\* schedules the one teardown with its reason; every later invocation changes
\* neither the latch nor the scheduled teardown nor what onComplete received;
\* and onComplete is invoked at most once, by that teardown, with that reason.
C1_FirstTriggerWins ==
    [][LET calls == TermCalls(emitted')
       IN /\ Len(completed') <= 1
          /\ Len(termTimers') <= 1
          /\ (~terminationTriggered /\ calls # <<>>) =>
                /\ terminationTriggered'
                /\ termTimers' = <<[reason |-> calls[1].reason, due |-> now + GraceMs]>>
                /\ completed' = completed
          /\ (~terminationTriggered /\ calls = <<>>) =>
                UNCHANGED <<terminationTriggered, termTimers, completed>>
          /\ terminationTriggered =>
                /\ terminationTriggered'
                /\ \/ UNCHANGED <<termTimers, completed>>
                   \/ /\ calls = <<>>
                      /\ termTimers # <<>>
                      /\ termTimers' = Tail(termTimers)
                      /\ completed' = Append(completed,
                            [transcript |-> Join(fullTranscriptHistory),
                             reason |-> Head(termTimers).reason])
      ]_vars

\* C1 witness: the third strike won, the countdown reached zero during the
\* grace delay, and onComplete was invoked once, with the strike's reason
C1_Witness ==
    /\ Len(completed) = 1
    /\ completed[1].reason = SecurityReason
    /\ timeLeft = 0
    /\ warningCount >= StrikeLimit

\* C2: handleInterviewComplete issues the scoring request if and only if the
\* termination reason is absent or "Completed"; for any other reason no scoring
\* request is ever issued and the result carries that reason verbatim with
\* passed = false.
C2_ScoringIffCompleted ==
    [][/\ completed' # completed =>
            LET reason == completed'[Len(completed')].reason
            IN /\ step' = "EVALUATING"
               /\ (reason = Absent \/ reason = CompletedReason)
                    <=> scoringRequests' = scoringRequests + 1
               /\ ~(reason = Absent \/ reason = CompletedReason)
                    => scoringRequests' = scoringRequests
       /\ completed' = completed => scoringRequests' = scoringRequests
       /\ \A i \in 1..Len(completed') :
            completed'[i].reason \notin {Absent, CompletedReason} =>
                /\ scoringRequests' = 0
                /\ step' = "RESULT" =>
                      /\ result'.terminationReason = completed'[i].reason
                      /\ result'.passed = FALSE
      ]_vars

\* C2 witness: a disqualified interview at the RESULT step, never scored, and
\* a completed one whose score was requested are both reached; this is the former
C2_Witness ==
    /\ step = "RESULT"
    /\ completed # <<>>
    /\ completed[1].reason = "Candidate asked to stop"
    /\ result.terminationReason = "Candidate asked to stop"
    /\ scoringRequests = 0

\* C3: each visibility-loss violation increments the strike counter by one; a
\* violation that brings it to 3 or more invokes termination with the fixed
\* security reason, which takes effect unless the latch is already set; however
\* many violations follow, there is no second termination and no second
\* onComplete.
C3_ThreeStrikes ==
    [][/\ Len(completed') <= 1
       /\ Len(termTimers') <= 1
       /\ warningCount' # warningCount =>
            emitted' # <<>> /\ emitted'[1].op = "triggerViolation"
       /\ (emitted' # <<>> /\ emitted'[1].op = "triggerViolation") =>
            /\ warningCount' = warningCount + 1
            /\ IF warningCount' >= 3
               THEN /\ emitted' = <<emitted'[1], EffTerminate(SecurityReason)>>
                    /\ terminationTriggered'
                    /\ IF terminationTriggered
                       THEN UNCHANGED <<termTimers, completed>>
                       ELSE /\ termTimers' =
                                <<[reason |-> "Security Violation: Multiple breaches detected.",
                                   due |-> now + GraceMs]>>
                            /\ completed' = completed
               ELSE /\ Len(emitted') = 1
                    /\ UNCHANGED <<terminationTriggered, termTimers, completed>>
      ]_vars

\* C3 witness: a fourth violation after the third, and one onComplete, with the
\* security reason
C3_Witness ==
    /\ warningCount = 4
    /\ Len(completed) = 1
    /\ completed[1].reason = SecurityReason

\* a step of the countdown's interval callback
CountdownStep == timerActive /\ countdownDue /\ ~countdownDue' /\ status' = status /\ isMounted'

\* C4: while status is connected each countdown tick decrements time-remaining
\* by one; the tick that brings it to zero invokes termination with "Time Limit
\* Exceeded", and no tick that leaves it above zero invokes termination; nothing
\* else changes time-remaining.
C4_Countdown ==
    [][/\ CountdownStep =>
            /\ status = "connected"
            /\ timeLeft' = timeLeft - 1
            /\ IF timeLeft' = 0
               THEN emitted' = <<EffTerminate("Time Limit Exceeded")>>
               ELSE /\ emitted' = <<>>
                    /\ UNCHANGED <<terminationTriggered, termTimers>>
       /\ timeLeft' # timeLeft => CountdownStep
       /\ (\E i \in 1..Len(emitted') :
              emitted'[i] = EffTerminate("Time Limit Exceeded")) =>
            CountdownStep /\ timeLeft = 1 /\ timeLeft' = 0
      ]_vars

\* C4 witness: the countdown has reached zero and its termination is pending
C4_Witness ==
    /\ timeLeft = 0
    /\ termTimers # <<>>
    /\ termTimers[1].reason = TimeLimitReason

\* C5: once the session has become connected, in every execution, whatever
\* channel events occur, the interview is eventually handed to onComplete (by
\* the countdown reaching zero, unless it concludes otherwise first).
C5_EventuallyCompletes == (status = "connected") ~> (completed # <<>>)

\* a directive was handed to the channel by the handler that just ran
Sent(es, directive) ==
    \E i \in 1..Len(es) :
        /\ es[i].op = "sendRealtimeInput"
        /\ es[i].text = directive
        /\ es[i].outcome # "threw"

\* C6: with awaiting-response set and no user speech, successive escalation
\* firings follow two-reminders-then-skip: the first and the second firing
\* each send the "Candidate is silent" directive and show a reminder status;
\* the third appends the synthetic "[No Answer - Time Limit Exceeded]" user
\* line to both transcript structures, resets the strike counter to 0 and
\* sends the "Candidate is still silent" directive.
C6_TwoRemindersThenSkip ==
    [][(~isProcessingTimeout /\ isProcessingTimeout') =>
          IF silenceWarningCount < 2
          THEN /\ silenceWarningCount' = silenceWarningCount + 1
               /\ Sent(emitted', SilentDirective)
               /\ systemMessageStatus' = "Reminder"
               /\ UNCHANGED <<transcriptLines, fullTranscriptHistory>>
          ELSE /\ silenceWarningCount' = 0
               /\ Sent(emitted', StillSilentDirective)
               /\ transcriptLines' =
                     Append(transcriptLines,
                            [speaker |-> "user",
                             text |-> <<"[No Answer - Time Limit Exceeded]">>])
               /\ fullTranscriptHistory' =
                     Append(fullTranscriptHistory,
                            <<"U", "s", "e", "r", ":", " ",
                              "[No Answer - Time Limit Exceeded]">>)
      ]_vars

\* what a tool-call batch that contains an endInterview call asks for: the
\* reason of the first such call, "Completed" when it has none
RequestedReason(calls) ==
    LET ends  == {i \in 1..Len(calls) : calls[i].name = "endInterview"}
        first == CHOOSE i \in ends : \A j \in ends : i <= j
    IN IF calls[first].reason \in {Absent, ""} THEN "Completed" ELSE calls[first].reason

\* the acknowledgement names every call of the batch, by id and name
Acknowledges(e, calls) ==
    /\ e.op = "sendToolResponse"
    /\ Len(e.calls) = Len(calls)
    /\ \A i \in 1..Len(calls) :
          e.calls[i].id = calls[i].id /\ e.calls[i].name = calls[i].name

HasEnd(calls) == \E i \in 1..Len(calls) : calls[i].name = "endInterview"

\* C7: on a tool-call batch that contains an endInterview call, termination is
\* invoked with the endInterview call's reason, or with "Completed" when the
\* reason is absent or empty, and the acknowledgement response for every call
\* in the batch (with that call's id and name) is sent right after it, in the
\* same turn of the event loop and before any teardown; a batch without an
\* endInterview call is neither acknowledged nor terminates.
C7_TerminateThenAck ==
    [][\A m \in ToolMessages : onmessage(m) =>
          IF HasEnd(m.calls)
          THEN /\ Len(emitted') = 2
               /\ emitted'[1].op = "handleTermination"
               /\ emitted'[1].reason = RequestedReason(m.calls)
               /\ Acknowledges(emitted'[2], m.calls)
               /\ terminationTriggered'
               /\ ~terminationTriggered =>
                     termTimers' = <<[reason |-> RequestedReason(m.calls),
                                      due |-> now + GraceMs]>>
               /\ UNCHANGED <<isConnected, channel, sessionRef, completed>>
          ELSE /\ emitted' = <<>>
               /\ UNCHANGED <<terminationTriggered, termTimers>>
      ]_vars

\* C7 as stated: the acknowledgement is sent first, termination is invoked then
C7_AckThenTerminate ==
    [][\A m \in ToolMessages : (onmessage(m) /\ HasEnd(m.calls)) =>
          /\ Len(emitted') = 2
          /\ Acknowledges(emitted'[1], m.calls)
          /\ emitted'[2].op = "handleTermination"
          /\ emitted'[2].reason = RequestedReason(m.calls)
      ]_vars

\* C7 witness: a batch of two calls, the second an endInterview without a
\* reason, was handled
C7_Witness ==
    /\ Len(emitted) = 2
    /\ emitted[1].op = "handleTermination"
    /\ emitted[1].reason = "Completed"
    /\ emitted[2].op = "sendToolResponse"
    /\ Len(emitted[2].calls) = 2
    /\ emitted[2].calls[1].name = "lookup"
    /\ terminationTriggered

\* C8: for any sequence of enqueued playback buffers with no flush in between
\* and any arrival times, each buffer starts at max(clock now, cursor) and the
\* cursor becomes start + duration, so playback intervals never overlap, and a
\* buffer that arrives before the previous one has ended starts exactly when
\* the previous one ends.
C8_GaplessNoOverlap ==
    [][\A m \in AudioMessages : (onmessage(m) /\ m.audio > 0 /\ ~m.interrupted) =>
          LET k   == Len(schedule')
              new == schedule'[k]
          IN /\ k = Len(schedule) + 1
             /\ new.start = IF now >= nextAudioStartTime THEN now ELSE nextAudioStartTime
             /\ new.end = new.start + m.audio
             /\ nextAudioStartTime' = new.start + m.audio
             /\ k \in sources'
             /\ \A i \in 1..(k - 1) :
                   schedule'[i] = schedule[i] /\ schedule[i].end <= new.start
             /\ (k > 1 /\ nextAudioStartTime # 0) =>
                   /\ nextAudioStartTime = schedule[k - 1].end
                   /\ now < schedule[k - 1].end => new.start = schedule[k - 1].end
      ]_vars

\* C8 witness: a second buffer arrived while the first was playing and is
\* scheduled for the moment the first ends
C8_Witness ==
    /\ Len(schedule) >= 2
    /\ {1, 2} \subseteq sources
    /\ schedule[1].start < now /\ now < schedule[1].end
    /\ schedule[2].start = schedule[1].end

\* C9: after a flush (on an interruption event) the playback active set is
\* empty, every source that was in it has been stopped, and the next enqueued
\* buffer starts at the clock time of its own enqueue, never at the stale
\* pre-flush cursor.
C9_FlushThenImmediate ==
    [][\A m \in AudioMessages : onmessage(m) =>
          /\ m.interrupted =>
                /\ sources' \subseteq {Len(schedule) + 1}
                /\ m.audio <= 0 => sources' = {}
                /\ \A i \in sources : schedule'[i].end <= now
                /\ m.audio <= 0 => nextAudioStartTime' <= now
          /\ (m.audio > 0 /\ (m.interrupted \/ nextAudioStartTime <= now)) =>
                /\ schedule'[Len(schedule')].start = now
                /\ Len(schedule') \in sources'
      ]_vars

\* C9 witness: a buffer was cut short by a flush and the next buffer started
\* at the clock time of its enqueue
C9_Witness ==
    /\ Len(schedule) = 2
    /\ sources = {2}
    /\ schedule[2].start = now
    /\ schedule[1].start < schedule[1].end /\ schedule[1].end <= now
    /\ schedule[1].end - schedule[1].start \notin Payloads
    /\ schedule[1].start + 2500 > now

\* the text without its leading and trailing blanks
Strip(x) ==
    LET inked == {i \in 1..Len(x) : x[i] # " "}
    IN IF inked = {} THEN <<>>
       ELSE SubSeq(x, CHOOSE i \in inked : \A j \in inked : i <= j,
                      CHOOSE i \in inked : \A j \in inked : j <= i)

\* a fragment of the last line's speaker extends that line, another's opens one
ExtendLines(lines, speaker, sep, piece) ==
    IF lines # <<>> /\ lines[Len(lines)].speaker = speaker
    THEN [i \in 1..Len(lines) |->
            IF i = Len(lines)
            THEN [speaker |-> speaker, text |-> lines[i].text \o sep \o piece]
            ELSE lines[i]]
    ELSE lines \o <<[speaker |-> speaker, text |-> piece]>>

ExtendHistory(h, prefix, sep, piece) ==
    IF h # <<>> /\ Len(h[Len(h)]) >= Len(prefix)
                /\ SubSeq(h[Len(h)], 1, Len(prefix)) = prefix
    THEN [i \in 1..Len(h) |-> IF i = Len(h) THEN h[i] \o sep \o piece ELSE h[i]]
    ELSE h \o <<prefix \o <<" ">> \o piece>>

\* C10: transcript merge: a fragment from the same speaker as the last line
\* extends that line (agent fragments trimmed and joined with one space, user
\* fragments concatenated unchanged); a fragment from the other speaker appends
\* a new line; a whitespace-only agent fragment or an empty user fragment
\* changes nothing.  The agent's fragment of a message is merged before the
\* user's.
C10_TranscriptMerge ==
    [][\A m \in TextMessages : onmessage(m) =>
          LET x == Strip(m.text)
              linesAi == IF x = <<>> THEN transcriptLines
                         ELSE ExtendLines(transcriptLines, "ai", <<" ">>, x)
              histAi  == IF x = <<>> THEN fullTranscriptHistory
                         ELSE ExtendHistory(fullTranscriptHistory, <<"A", "I", ":">>,
                                            <<" ">>, x)
          IN /\ transcriptLines' =
                   IF m.input = <<>> THEN linesAi
                   ELSE ExtendLines(linesAi, "user", <<>>, m.input)
             /\ fullTranscriptHistory' =
                   IF m.input = <<>> THEN histAi
                   ELSE ExtendHistory(histAi, <<"U", "s", "e", "r", ":">>, <<>>, m.input)
      ]_vars

\* C10 witness: the agent's fragment " b " extended the agent's line "a", and
\* the user's fragments " " and "a" made one line of their own
C10_Witness ==
    /\ Len(transcriptLines) = 2
    /\ transcriptLines[1] = [speaker |-> "ai", text |-> <<"a", " ", "b">>]
    /\ transcriptLines[2] = [speaker |-> "user", text |-> <<" ", "a">>]
    /\ fullTranscriptHistory[1] = <<"A", "I", ":", " ", "a", " ", "b">>

\* the prefix the history gives a speaker's lines
SpeakerPrefix(speaker) ==
    IF speaker = "ai" THEN <<"A", "I", ":", " ">> ELSE <<"U", "s", "e", "r", ":", " ">>

\* C11: after any sequence of agent fragments, user fragments and synthetic
\* no-answer entries, the display list and the flat history have the same
\* number of lines, the same speaker on each line, and each history line is
\* the speaker's prefix followed by the display line's text.
C11_TranscriptsAgree ==
    /\ Len(fullTranscriptHistory) = Len(transcriptLines)
    /\ \A i \in 1..Len(transcriptLines) :
          fullTranscriptHistory[i] =
              SpeakerPrefix(transcriptLines[i].speaker) \o transcriptLines[i].text

\* C11 witness: an agent line of two fragments, then a synthetic no-answer
\* entry that a user fragment has extended
C11_Witness ==
    /\ Len(transcriptLines) = 2
    /\ transcriptLines[1] = [speaker |-> "ai", text |-> <<"a", " ", "a">>]
    /\ transcriptLines[2] = [speaker |-> "user",
                             text |-> <<"[No Answer - Time Limit Exceeded]", "b">>]
    /\ Len(fullTranscriptHistory) = 2

\* the websocket's close event: an open or closing channel becomes closed
CloseEvent == channel \in {"open", "closing"} /\ channel' = "closed"

\* C12: when the channel closes while the session is logically connected,
\* status becomes connecting, and the termination latch, the recorded reason
\* and the transcript are unchanged and onComplete is not invoked; a close
\* event that arrives after teardown leaves status unchanged.
C12_CloseKeepsTermination ==
    [][CloseEvent =>
          /\ isConnected => status' = "connecting"
          /\ ~isConnected => status' = status
          /\ UNCHANGED <<terminationTriggered, termTimers, completed,
                         transcriptLines, fullTranscriptHistory, isConnected>>
          /\ emitted' = <<>>
      ]_vars

\* C12 witness: the channel closed during the grace delay of a termination;
\* status is connecting and the teardown with its reason is still pending
C12_Witness ==
    /\ channel = "closed"
    /\ isConnected
    /\ status = "connecting"
    /\ terminationTriggered
    /\ termTimers # <<>>
    /\ completed = <<>>

\* C13: a setup failure (missing credential, denied device permission,
\* handshake exception) sets status to error, and afterwards the session never
\* becomes connected, never starts the capture loop and makes no further
\* connection attempt.
C13_SetupFailureIsFinal ==
    [][/\ setupPc' = "failed" =>
            /\ status' = "error"
            /\ ~isConnected'
            /\ ~processorAttached'
            /\ ~sessionRef'
            /\ channel' \in {"none", "closed"}
       /\ setupPc = "failed" => setupPc' = "failed"
      ]_vars

\* C13, amended: a setup failure of a session that is still mounted sets
\* status to error (a session unmounted during the setup has no status left
\* to set); after any setup failure the session never becomes connected, never
\* starts the capture loop and makes no further connection attempt.
C13_SetupFailureIsFinalWhileMounted ==
    [][/\ setupPc' = "failed" =>
            /\ isMounted' => status' = "error"
            /\ ~isConnected'
            /\ ~processorAttached'
            /\ ~sessionRef'
            /\ channel' \in {"none", "closed"}
       /\ setupPc = "failed" => setupPc' = "failed"
      ]_vars

\* C13 witness: the handshake failed after the devices were granted, a second
\* into the setup
C13_Witness ==
    /\ setupPc = "failed"
    /\ stream = "live"
    /\ channel = "closed"
    /\ status = "error"
    /\ now > 0

\* the handshake's open event
OpenEvent == setupPc = "handshake" /\ setupPc' = "opened"

Called(es, e) == \E i \in 1..Len(es) : es[i] = e

\* nothing is held that a teardown releases
TornDown ==
    /\ ~isConnected /\ ~sessionRef /\ ~processorAttached
    /\ stream # "live" /\ outputCtx # "running" /\ inputCtx # "running"
    /\ sources = {}

RECURSIVE Joined(_)
Joined(h) ==
    IF Len(h) = 0 THEN <<>>
    ELSE IF Len(h) = 1 THEN h[1]
    ELSE Joined(SubSeq(h, 1, Len(h) - 1)) \o <<"\n">> \o h[Len(h)]

\* the positions of a call among a handler's calls
Positions(es, op) == {i \in 1..Len(es) : es[i].op = op}

\* C16: when termination takes effect, nothing is torn down or handed over
\* before the grace delay of 2 s has passed; then, in this order, the owned
\* resources are torn down and onComplete receives the transcript history
\* joined by newlines as it stands at that moment, with the recorded reason.
C16_GraceThenTeardownThenHandoff ==
    [][/\ (~terminationTriggered /\ terminationTriggered') =>
            /\ Len(termTimers') = 1
            /\ termTimers'[1].due = now + 2000
            /\ completed' = completed
            /\ UNCHANGED <<resVars, isConnected>>
       /\ (termTimers # <<>> /\ now < termTimers[1].due) =>
            /\ completed' = completed
            /\ Positions(emitted', "disconnect") = {}
            /\ Positions(emitted', "onComplete") = {}
       /\ Positions(emitted', "onComplete") # {} =>
            /\ termTimers # <<>> /\ now >= termTimers[1].due
            /\ Cardinality(Positions(emitted', "onComplete")) = 1
            /\ \A i \in Positions(emitted', "onComplete") :
                  /\ \E j \in Positions(emitted', "disconnect") : j < i
                  /\ emitted'[i].text = Joined(fullTranscriptHistory)
                  /\ emitted'[i].reason = termTimers[1].reason
            /\ TornDown'
            /\ completed' = completed \o
                  <<[transcript |-> Joined(fullTranscriptHistory),
                     reason |-> termTimers[1].reason]>>
       /\ completed' # completed => Positions(emitted', "onComplete") # {}
      ]_vars

\* C16 witness: the agent ended the interview, a user fragment arrived during
\* the grace delay, and onComplete received both lines joined by a newline
C16_Witness ==
    /\ Len(completed) = 1
    /\ completed[1].reason = "Completed"
    /\ completed[1].transcript =
          <<"A", "I", ":", " ", "a", "\n", "U", "s", "e", "r", ":", " ", "b">>
    /\ emitted[Len(emitted)].op = "onComplete"
    /\ ~isConnected

\* C17: for a scored interview the result's passed flag is true if and only
\* if the returned rating is greater than 6; when the scoring call fails or
\* returns no rating the result has rating 0 and passed = false.
C17_PassIffAboveSix ==
    [][/\ \A ok \in BOOLEAN, r \in Ratings : ScoreResponse(ok, r) =>
            IF ok /\ r # NoRating
            THEN result'.rating = r /\ (result'.passed <=> r > 6)
            ELSE result'.rating = 0 /\ result'.passed = FALSE
       /\ (step' = "RESULT" /\ scoringRequests' > 0) =>
            (result'.passed <=> result'.rating > 6)
      ]_vars

\* C17 witness: a completed interview was scored 7 and passed
C17_Witness ==
    /\ step = "RESULT"
    /\ scoringRequests = 1
    /\ result.rating = 7
    /\ result.passed

\* C18: after an interruption event has been processed, the playback active
\* set is empty, agent-speaking is false, awaiting-response is false, the
\* displayed nudge is cleared and the escalation lock is released.
C18_InterruptionClearsAll ==
    [][\A m \in ControlMessages \cup AudioMessages :
          (m.interrupted /\ onmessage(m)) =>
              /\ sources' = {}
              /\ isAiSpeaking' = FALSE
              /\ isWaitingForResponse' = FALSE
              /\ systemMessageStatus' = "null"
              /\ isProcessingTimeout' = FALSE
      ]_vars

\* the monitor's precondition, as the specification words it; connected is
\* the connected mark set on open and cleared by teardown
MonitorArmed ==
    /\ isConnected = TRUE
    /\ isWaitingForResponse = TRUE
    /\ isAiSpeaking = FALSE
    /\ isProcessingTimeout = FALSE
    /\ DateNow - lastAiTurnEndTime > 10000

\* a directive was given to the channel, whatever became of it
DirectiveIssued(es) == \E i \in 1..Len(es) : es[i].op = "sendRealtimeInput"

IsDirective(e) ==
    /\ e.op = "sendRealtimeInput"
    /\ e.text # <<>>
    /\ Head(e.text) = "System"

\* the step processes an agent content event or an interruption event
ContentOrInterruption ==
    \E m \in ControlMessages \cup {LookupMessage} :
        (m.hasContent \/ m.interrupted) /\ onmessage(m)

\* C20: after an escalation firing has acquired the lock, no further strike
\* is added and no further directive is sent until an agent content event or
\* an interruption event has been processed: while the lock is held, a step
\* that is neither of the two keeps the lock, adds no strike, appends no
\* synthetic line and sends no directive.
C20_LockHoldsUntilAgentEvent ==
    [][(isProcessingTimeout /\ ~ContentOrInterruption) =>
          /\ isProcessingTimeout'
          /\ silenceWarningCount' <= silenceWarningCount
          /\ fullTranscriptHistory' = fullTranscriptHistory
          /\ \A i \in 1..Len(emitted') : ~IsDirective(emitted'[i])
      ]_vars

\* C20 witness: the lock was taken by the first firing and has been held over
\* later ticks on which the monitor's other conditions still hold
C20_Witness ==
    /\ isProcessingTimeout
    /\ silenceWarningCount = 1
    /\ isConnected /\ isWaitingForResponse /\ ~isAiSpeaking
    /\ lastAiTurnEndTime > 0
    /\ DateNow - lastAiTurnEndTime >= 13000

\* an audio frame reached the agent
FrameTransmitted(es) ==
    \E i \in 1..Len(es) :
        /\ es[i].op = "sendRealtimeInput"
        /\ es[i].text = <<"media">>
        /\ es[i].outcome = "sent"

\* C21: the capture loop processes and transmits a frame only while the
\* session status is connected: in connecting or error status (including
\* after a channel error or unexpected close) and after teardown, no audio
\* frame is transmitted.
C21_CaptureOnlyWhileStatusConnected ==
    [][\A rms \in RmsLevels, n \in FrameLengths :
          (onaudioprocess(rms, n) /\ status # "connected") =>
              /\ ~FrameTransmitted(emitted')
              /\ UNCHANGED <<noiseFloor, isUserSpeaking>>
      ]_vars

\* the asynchronous setup has run to its end: it returned, failed, or stored
\* the handle
SetupSettled == setupPc \in {"returned", "failed", "ready"}

\* C22: after unmount, no continuation of the asynchronous setup keeps or
\* acquires hardware: at whichever await unmount interleaves with setup, the
\* microphone/camera stream, both audio contexts and the duplex handle all
\* end up released.
C22_NothingHeldAfterUnmount ==
    (~isMounted /\ SetupSettled) =>
        /\ stream # "live"
        /\ outputCtx # "running"
        /\ inputCtx # "running"
        /\ channel \in {"none", "closing", "closed"}

\* C23: session status follows connecting -> connected -> {error | closed}:
\* once status is error it never returns to connecting or connected.
C23_ErrorIsFinal ==
    [][status = "error" => status' \notin {"connecting", "connected"}]_vars

\* C24: the playback scheduler's next-start cursor is monotonically
\* non-decreasing and is at every moment greater than or equal to the current
\* playback clock, across session open, enqueues, flushes and teardown.
C24_CursorMonotoneAboveClock ==
    [][/\ nextAudioStartTime' >= nextAudioStartTime
       /\ nextAudioStartTime' >= now'
      ]_vars

\* the step resets the cursor: the open event, a flush or a teardown
CursorReset ==
    \/ OpenEvent
    \/ \E m \in AudioMessages : m.interrupted /\ onmessage(m)
    \/ Called(emitted', EffDisconnect)

\* C24, amended: the cursor goes back only where open, a flush or teardown
\* resets it to 0, and it may fall behind the clock while nothing is
\* scheduled; every enqueued buffer starts at or after the clock and no
\* earlier than the cursor, the cursor is then the end of that buffer, and it
\* is never before the end of a source in the active set.
C24_CursorMonotoneBetweenResets ==
    [][/\ nextAudioStartTime' < nextAudioStartTime => CursorReset
       /\ \A m \in AudioMessages : (onmessage(m) /\ m.audio > 0) =>
             LET new == schedule'[Len(schedule')]
             IN /\ new.start >= now
                /\ ~m.interrupted => new.start >= nextAudioStartTime
                /\ nextAudioStartTime' = new.end
                /\ nextAudioStartTime' > now
       /\ \A i \in sources' : schedule'[i].end <= nextAudioStartTime'
      ]_vars

\* C24 witness: a second buffer was enqueued after a pause and started after
\* the first had ended; it has played out and the clock has passed the cursor
C24_Witness ==
    /\ Len(schedule) = 2
    /\ schedule[1].end < now
    /\ schedule[2].start > schedule[1].end
    /\ schedule[2].end = nextAudioStartTime
    /\ nextAudioStartTime < now

\* C25: after a turn-complete event has been processed, whatever else the
\* same message carries, agent-speaking is false, the turn-end timestamp is
\* the current time and awaiting-response is true.
C25_TurnCompleteArmsMonitor ==
    [][\A m \in ControlMessages :
          (m.turnComplete /\ onmessage(m)) =>
              /\ isAiSpeaking' = FALSE
              /\ lastAiTurnEndTime' = EpochSeconds * 1000 + now
              /\ isWaitingForResponse' = TRUE
      ]_vars

\* C25 witness: the end of a turn was processed some seconds into the
\* session, and the timestamp is that moment's
C25_Witness ==
    /\ ~isAiSpeaking /\ isWaitingForResponse
    /\ lastAiTurnEndTime = EpochSeconds * 1000 + now
    /\ now >= 2000
    /\ channel = "open"

\* the step processes a message that ends the agent's turn
TurnCompleteEvent == \E m \in ControlMessages : m.turnComplete /\ onmessage(m)

\* C26: when a frame is classified as speaking, the silence strike counter is
\* reset to 0 and any pending escalation is cancelled (awaiting-response
\* cleared), so no escalation fires until the next agent turn-complete: while
\* awaiting-response is clear, a step other than a turn-complete leaves it
\* clear, takes no lock, adds no strike and sends no directive.
C26_SpeechCancelsEscalation ==
    [][/\ \A rms \in RmsLevels :
            (onaudioprocess(rms, 1) /\ isConnected /\ isMounted /\ isUserSpeaking') =>
                /\ silenceWarningCount' = 0
                /\ isWaitingForResponse' = FALSE
       /\ (~isWaitingForResponse /\ ~TurnCompleteEvent) =>
                /\ isWaitingForResponse' = FALSE
                /\ isProcessingTimeout' => isProcessingTimeout
                /\ silenceWarningCount' <= silenceWarningCount
                /\ fullTranscriptHistory' = fullTranscriptHistory
                /\ \A i \in 1..Len(emitted') : ~IsDirective(emitted'[i])
      ]_vars

\* C26 witness: the monitor had fired (its lock is still held) when the
\* candidate spoke: the counter is back at 0 and nothing is awaited
C26_Witness ==
    /\ isUserSpeaking
    /\ isProcessingTimeout
    /\ silenceWarningCount = 0
    /\ ~isWaitingForResponse
    /\ fullTranscriptHistory = <<>>

\* teardown has run: by the termination's timeout, or by the unmount
AfterTeardown == completed # <<>> \/ (~isMounted /\ setupPc # "unmounted")

\* C27: after teardown no per-second ticker acts any more: the countdown no
\* longer decrements time-remaining, and the silence monitor adds no strike
\* and sends no directive.
C27_NoTickerAfterTeardown ==
    [][AfterTeardown =>
          /\ timeLeft' = timeLeft
          /\ silenceWarningCount' = silenceWarningCount
          /\ isProcessingTimeout' = isProcessingTimeout
          /\ fullTranscriptHistory' = fullTranscriptHistory
          /\ \A i \in 1..Len(emitted') : ~IsDirective(emitted'[i])
      ]_vars

\* C28: while connected, every captured frame whose resampled output is
\* non-empty is transmitted to the agent whether or not VAD classifies it as
\* speech, and a frame whose resampled output has length zero is not
\* transmitted.
C28_EveryNonEmptyFrameIsSent ==
    [][\A rms \in RmsLevels, n \in FrameLengths : onaudioprocess(rms, n) =>
          /\ (status = "connected" /\ n > 0) => FrameTransmitted(emitted')
          /\ n = 0 => emitted' = <<>>
      ]_vars

\* C28 witness: a frame that was not classified as speech has been
\* transmitted
C28_Witness ==
    /\ FrameTransmitted(emitted)
    /\ ~isUserSpeaking
    /\ status = "connected"

\* C29: time-remaining starts at 600, never increases, never goes below 0,
\* and changes only on countdown ticks that occur while status is connected.
C29_TimeRemaining ==
    /\ timeLeft = 600
    /\ [][/\ timeLeft' <= timeLeft
          /\ timeLeft' >= 0
          /\ timeLeft' # timeLeft =>
                /\ status = "connected"
                /\ countdownDue /\ ~countdownDue'
                /\ timeLeft' = timeLeft - 1
         ]_vars

\* C29 witness: the countdown ran for two seconds, then the channel reported
\* an error, and seconds later time-remaining is where it was
C29_Witness ==
    /\ timeLeft = 598
    /\ status = "error"
    /\ now >= 5000

\* x is within d of y
Within(x, y, d) == x - y <= d /\ y - x <= d

\* a frame of level rms is processed by the capture loop
Frame(rms) == onaudioprocess(rms, 1) /\ isConnected /\ isMounted

\* C30: noise-floor update per frame: an RMS below the floor strictly lowers
\* the floor (to floor*0.90 + RMS*0.10); an RMS at or above the floor and
\* below 3 times the floor moves it to floor*0.95 + RMS*0.05, never lowering
\* it; an RMS at or above 3 times the floor (for example 10 times) leaves the
\* floor unchanged.  The values are compared up to the rounding of the
\* arithmetic; the orderings are taken as stated.
C30_NoiseFloorRegimes ==
    [][\A rms \in NoiseLevels(noiseFloor) : Frame(rms) =>
          /\ rms < noiseFloor =>
                /\ noiseFloor' < noiseFloor
                /\ Within(100 * noiseFloor', 90 * noiseFloor + 10 * rms,
                          400 * Ulp(noiseFloor))
          /\ (rms >= noiseFloor /\ rms < 3 * noiseFloor) =>
                /\ noiseFloor' >= noiseFloor
                /\ Within(100 * noiseFloor', 95 * noiseFloor + 5 * rms,
                          400 * Ulp(noiseFloor))
          /\ rms >= 3 * noiseFloor => noiseFloor' = noiseFloor
      ]_vars

\* C30, amended: the same up to the rounding of the arithmetic (the new value
\* within 4 rounding steps of the exact one): an RMS below the floor
\* moves it to floor*0.90 + RMS*0.10 as rounded, strictly lower when the RMS
\* is at least 32 rounding steps below the floor and otherwise at most one
\* step above it; an RMS at or above the floor and at least one step below 3
\* times the floor moves it to floor*0.95 + RMS*0.05 as rounded, at most one
\* step below the old floor; an RMS at or above 3 times the floor leaves it
\* unchanged; an RMS less than one step below 3 times the floor does one or
\* the other.
C30_NoiseFloorRegimesRounded ==
    [][\A rms \in NoiseLevels(noiseFloor) : Frame(rms) =>
          /\ rms < noiseFloor =>
                /\ noiseFloor' <= noiseFloor + Ulp(noiseFloor)
                /\ noiseFloor - rms >= 32 * Ulp(noiseFloor) => noiseFloor' < noiseFloor
                /\ Within(100 * noiseFloor', 90 * noiseFloor + 10 * rms,
                          400 * Ulp(noiseFloor))
          /\ (rms >= noiseFloor /\ rms + Ulp(rms) <= 3 * noiseFloor) =>
                /\ noiseFloor' >= noiseFloor - Ulp(noiseFloor)
                /\ Within(100 * noiseFloor', 95 * noiseFloor + 5 * rms,
                          400 * Ulp(noiseFloor))
          /\ (rms + Ulp(rms) > 3 * noiseFloor /\ rms < 3 * noiseFloor) =>
                \/ noiseFloor' = noiseFloor
                \/ Within(100 * noiseFloor', 95 * noiseFloor + 5 * rms,
                          400 * Ulp(noiseFloor))
          /\ rms >= 3 * noiseFloor => noiseFloor' = noiseFloor
      ]_vars

\* C30 witness: frames below the floor have been processed and transmitted,
\* and the floor is below its initial value
C30_Witness ==
    /\ isConnected
    /\ noiseFloor < InitialNoiseFloor
    /\ noiseFloor > 0
    /\ FrameTransmitted(emitted)

\* C31: for every frame, the frame is classified as speaking if and only if
\* its RMS is strictly greater than max(0.03, floor * 6), where floor is the
\* noise floor as already updated by that same frame.
C31_SpeakingIffAboveThreshold ==
    [][\A rms \in VadLevels(noiseFloor) : Frame(rms) =>
          (isUserSpeaking' <=> rms > Max(30000, 6 * noiseFloor'))
      ]_vars

\* the representable number nearest to x, the even one of two equally near
Nearest(x) ==
    LET u  == Ulp(x)
        lo == (x \div u) * u
        hi == lo + u
    IN IF x - lo < hi - x THEN lo
       ELSE IF x - lo > hi - x THEN hi
       ELSE IF (lo \div u) % 2 = 0 THEN lo ELSE hi

\* C31, amended: the frame is classified as speaking if and only if its RMS is
\* strictly greater than max(0.03, floor * 6) with the product rounded to the
\* nearest representable number, floor being the noise floor as already
\* updated by that same frame; so an RMS more than one rounding step above
\* six times the floor (and above 0.03) is speaking, and a speaking frame's
\* RMS is above 0.03 and less than one step below six times the floor at least.
C31_SpeakingIffAboveRoundedThreshold ==
    [][\A rms \in VadLevels(noiseFloor) : Frame(rms) =>
          /\ isUserSpeaking' <=> rms > Max(30000, Nearest(6 * noiseFloor'))
          /\ (rms > 30000 /\ rms >= 6 * noiseFloor' + Ulp(rms)) => isUserSpeaking'
          /\ isUserSpeaking' => (rms > 30000 /\ rms + Ulp(rms) > 6 * noiseFloor')
      ]_vars

\* C31 witness: a frame above six times a floor that has risen past a sixth
\* of the minimum threshold was classified as speaking
C31_Witness ==
    /\ isUserSpeaking
    /\ 6 * noiseFloor > 30000
    /\ FrameTransmitted(emitted)

\* C32: inbound events take effect in arrival order even though audio
\* decoding is awaited inside the message handler: audio buffers are enqueued
\* in the arrival order of their messages, and no buffer from a message
\* received before an interruption is started after that interruption's
\* flush.  A message is handled only when no buffer of an earlier message is
\* still being awaited; the awaited buffer is enqueued by the very next step,
\* before any other handler, and buffers are enqueued oldest first.
C32_InboundInArrivalOrder ==
    [][/\ \A m \in AudioMessages : onmessageAwait(m) =>
             /\ decoding = <<>>
             /\ Len(decoding') <= 1
             /\ Len(schedule') = Len(schedule)
             /\ m.interrupted => sources' = {}
       /\ Len(schedule') > Len(schedule) =>
             /\ decoding # <<>>
             /\ decoding' = SubSeq(decoding, 2, Len(decoding))
             /\ Len(schedule') = Len(schedule) + 1
             /\ schedule'[Len(schedule')].end - schedule'[Len(schedule')].start
                   = decoding[1]
             /\ schedule'[Len(schedule')].start >= now
             /\ Len(schedule') \in sources'
       /\ decoding # <<>> => Len(schedule') > Len(schedule)
      ]_vars

\* C32 witness: an interruption that carried audio arrived while an earlier
\* buffer was playing; the flush cut the earlier buffer, and the
\* interruption's own buffer was decoded and started afterwards
C32_Witness ==
    /\ Len(schedule) = 2
    /\ sources = {2}
    /\ decoding = <<>>
    /\ emitted = <<EffStart(now)>>
    /\ schedule[2].start = now
    /\ schedule[1].start < schedule[1].end /\ schedule[1].end = now
    /\ schedule[1].end - schedule[1].start = 2000
    /\ schedule[2].end - schedule[2].start = 500

\* the last line of the history is a synthetic no-answer line
EndsWithSilentEntry(h) ==
    /\ h # <<>>
    /\ h[Len(h)] = <<"U", "s", "e", "r", ":", " ", "[No Answer - Time Limit Exceeded]">>

\* C33: once the termination latch is set, the silence monitor adds no
\* further strike, sends no directive and appends no synthetic transcript
\* line, including during the grace delay before teardown.
C33_LatchSilencesMonitor ==
    [][terminationTriggered =>
          /\ silenceWarningCount' <= silenceWarningCount
          /\ isProcessingTimeout' => isProcessingTimeout
          /\ \A i \in 1..Len(emitted') : ~IsDirective(emitted'[i])
          /\ Len(fullTranscriptHistory') > Len(fullTranscriptHistory)
                => ~EndsWithSilentEntry(fullTranscriptHistory')
      ]_vars

\* C34: every escalation firing that acquires the lock actually sends a
\* directive to the agent: the lock is never left held after a firing in
\* which no directive was sent (duplex handle not yet adopted, or the send
\* threw).
C34_LockOnlyWithDirective ==
    [][(~isProcessingTimeout /\ isProcessingTimeout') =>
          \E i \in 1..Len(emitted') :
              IsDirective(emitted'[i]) /\ emitted'[i].outcome = "sent"
      ]_vars

\* C35: once appended, a synthetic no-answer transcript line keeps its text
\* unchanged in both the display list and the flat history: user
\* transcription fragments that arrive later are never merged into it.
C35_SyntheticLineIsFinal ==
    [][/\ \A i \in 1..Len(transcriptLines) :
             transcriptLines[i].text = <<"[No Answer - Time Limit Exceeded]">> =>
                 /\ i <= Len(transcriptLines')
                 /\ transcriptLines'[i] = transcriptLines[i]
       /\ \A i \in 1..Len(fullTranscriptHistory) :
             EndsWithSilentEntry(SubSeq(fullTranscriptHistory, 1, i)) =>
                 /\ i <= Len(fullTranscriptHistory')
                 /\ fullTranscriptHistory'[i] = fullTranscriptHistory[i]
      ]_vars

\* the step appends a synthetic no-answer line
SilentEntryAppended ==
    /\ Len(fullTranscriptHistory') = Len(fullTranscriptHistory) + 1
    /\ EndsWithSilentEntry(fullTranscriptHistory')

\* the step is an escalation firing
Firing == ~isProcessingTimeout /\ isProcessingTimeout'

\* C36: between silence ticks the strike counter is always 0, 1 or 2, and a
\* synthetic no-answer line is appended only after two reminder firings have
\* occurred since the latest of: session start, the last frame classified as
\* speaking, and the previous synthetic line.  The counter starts at 0, a
\* reminder firing adds one to it and appends nothing, a frame classified as
\* speaking and the firing that appends the synthetic line put it back to 0,
\* nothing else changes it, and the synthetic line is appended only by a
\* firing that finds it at 2.
C36_SkipAfterTwoReminders ==
    /\ silenceWarningCount = 0
    /\ [][/\ silenceWarningCount' \in {0, 1, 2}
          /\ silenceWarningCount' > silenceWarningCount =>
                /\ silenceWarningCount' = silenceWarningCount + 1
                /\ Firing
                /\ ~SilentEntryAppended
                /\ fullTranscriptHistory' = fullTranscriptHistory
          /\ silenceWarningCount' < silenceWarningCount =>
                /\ silenceWarningCount' = 0
                /\ \/ SilentEntryAppended
                   \/ isUserSpeaking' /\ fullTranscriptHistory' = fullTranscriptHistory
          /\ (Firing /\ silenceWarningCount < 2) =>
                silenceWarningCount' = silenceWarningCount + 1
          /\ (\E rms \in RmsLevels : Frame(rms) /\ rms > 30000) =>
                silenceWarningCount' = 0
          /\ SilentEntryAppended =>
                /\ Firing
                /\ silenceWarningCount = 2
                /\ silenceWarningCount' = 0
         ]_vars

\* C36 witness: the third firing has just appended the synthetic line and
\* sent the skip directive, and the counter is back at 0
C36_Witness ==
    /\ EndsWithSilentEntry(fullTranscriptHistory)
    /\ silenceWarningCount = 0
    /\ isProcessingTimeout
    /\ Sent(emitted, StillSilentDirective)
    /\ now >= 33000

\* C37: at the end of every event handler, awaiting-response being true
\* implies that agent-speaking is false and that the turn-end timestamp is the
\* non-zero time of the latest turn-complete event.  A turn-complete event
\* records the current time, and while awaiting-response stays true without
\* one the timestamp stays what it was.
C37_AwaitingMeansTurnEnded ==
    /\ [](isWaitingForResponse =>
             /\ isAiSpeaking = FALSE
             /\ lastAiTurnEndTime # 0
             /\ lastAiTurnEndTime >= EpochSeconds * 1000
             /\ lastAiTurnEndTime <= EpochSeconds * 1000 + now)
    /\ [][/\ TurnCompleteEvent =>
                /\ isWaitingForResponse'
                /\ lastAiTurnEndTime' = EpochSeconds * 1000 + now
          /\ (isWaitingForResponse' /\ ~TurnCompleteEvent) =>
                /\ isWaitingForResponse
                /\ lastAiTurnEndTime' = lastAiTurnEndTime
         ]_vars

\* C37 witness: after a first reminder the agent spoke again and completed a
\* second turn; seconds later the candidate is still awaited and the
\* timestamp is that of the second turn's end
C37_Witness ==
    /\ isWaitingForResponse
    /\ ~isAiSpeaking
    /\ silenceWarningCount = 1
    /\ lastAiTurnEndTime >= EpochSeconds * 1000 + 11000
    /\ EpochSeconds * 1000 + now >= lastAiTurnEndTime + 5000

\* C38: after any number of toggleMute calls, the microphone tracks are
\* enabled exactly when the isMuted flag is false.
C38_TracksFollowMuteFlag ==
    (isMounted /\ stream = "live") => (tracksEnabled <=> isMuted = FALSE)

\* C39: a frame classified as speaking never changes the noise floor:
\* whenever a frame's RMS exceeds the detection threshold, the floor after
\* that frame equals the floor before it.
C39_SpeechLeavesFloor ==
    [][\A rms \in VadLevels(noiseFloor) : Frame(rms) =>
          /\ isUserSpeaking' => noiseFloor' = noiseFloor
          /\ rms > Max(30000, 6 * noiseFloor') => noiseFloor' = noiseFloor
          /\ rms > Max(30000, 6 * noiseFloor) => noiseFloor' = noiseFloor
      ]_vars

\* C39 witness: quiet frames had lowered the floor when a frame above the
\* minimum threshold was classified as speaking
C39_Witness ==
    /\ isUserSpeaking
    /\ noiseFloor < InitialNoiseFloor
    /\ noiseFloor > 0
    /\ isConnected

\* C40: after onComplete is invoked, the app moves to EVALUATING and then
\* always reaches the RESULT step with a non-null result, whether scoring
\* succeeds, fails or is bypassed; the RESULT step is never entered without a
\* result.
C40_CompleteLeadsToResult ==
    /\ [](step = "RESULT" => result.feedback # "null")
    /\ [][completed' # completed => step' = "EVALUATING"]_vars
    /\ (completed # <<>>) ~> (step = "RESULT" /\ result.feedback # "null")

\* C40 witness: the agent ended the interview, the scoring request failed,
\* and the app is at the RESULT step with the result of a failed evaluation
C40_Witness ==
    /\ step = "RESULT"
    /\ Len(completed) = 1
    /\ completed[1].reason = "Completed"
    /\ scoringRequests = 1
    /\ result.passed = FALSE
    /\ result.feedback = "An error occurred during evaluation. Please try again."
    /\ ~isMounted
=============================================================================
